---- MODULE Spec2Model ----
(***************************************************************************)
(* A model of the state-vector emulator of quantum-algs-project:          *)
(* StateVector (src/src/statevector.py), Gate and QuantumCircuit          *)
(* (src/src/circuit.py) and MyEmulator (src/src/emulator.py).             *)
(*                                                                         *)
(* Python objects live in a heap: a StateVector object holds a reference  *)
(* to a Python list (its amplitude buffer), so that aliasing of objects   *)
(* and of buffers is visible.  Amplitudes are integers; target indices    *)
(* are natural numbers.                                                    *)
(***************************************************************************)
EXTENDS Integers, Sequences, FiniteSets, TLC

VARIABLES
    heap,      \* the Python heap: list objects and StateVector objects
    pre,       \* the heap as it was when the last engine call started
    gate,      \* the Gate handed to apply_gate
    circuit,   \* the gates of the QuantumCircuit handed to apply_circuit
    input,     \* reference of the StateVector handed to the engine
    calls,     \* log of the engine calls made so far, with what each returned
    pc         \* position of the caller

vars == <<heap, pre, gate, circuit, input, calls, pc>>

(***************************************************************************)
(* Bounds of the model.                                                    *)
(***************************************************************************)
\* the largest register (qubit count) a StateVector of the model has
MaxQubits == 3
\* the largest number of gates of a circuit of the model
MaxGates == 2
\* the largest number of gates of a circuit that is built by appends
MaxLen == 3
\* the largest number of calls made on one StateVector, its construction included
MaxOps == 3

\* the StateVectors a caller constructs
MaxVectors == 2
\* the QuantumCircuit objects a caller constructs
MaxCircuits == 2
\* the iterations of the loop of concat that are followed
MaxIter == 4
\* the highest bit position given to the bit primitives
MaxBit == 2
\* the largest number of positions and of values given to __replace_bits__
MaxPairs == 2

(***************************************************************************)
(* Python integer arithmetic (unbounded two's complement).                 *)
(***************************************************************************)
\* 2 ** n, and 1 << n
Pow2(n) == 2 ^ n

\* x >> n
ShiftRight(x, n) == x \div Pow2(n)

\* x << n
ShiftLeft(x, n) == x * Pow2(n)

\* ~x
BitNot(x) == (0 - x) - 1

\* a & b, by the bits of the two's complement numbers
BitAndOf[a \in Int, b \in Int] ==
    IF a = 0 \/ b = 0 THEN 0
    ELSE IF a = -1 THEN b
    ELSE IF b = -1 THEN a
    ELSE (a % 2) * (b % 2) + 2 * BitAndOf[a \div 2, b \div 2]

BitAnd(a, b) == BitAndOf[a, b]

\* a | b
BitOrOf[a \in Int, b \in Int] ==
    IF a = 0 THEN b
    ELSE IF b = 0 THEN a
    ELSE IF a = -1 \/ b = -1 THEN -1
    ELSE (IF a % 2 = 1 \/ b % 2 = 1 THEN 1 ELSE 0) + 2 * BitOrOf[a \div 2, b \div 2]

BitOr(a, b) == BitOrOf[a, b]

\* the orders of n things: the one-to-one maps of 1..n onto itself
Orders(n) == {p \in [1..n -> 1..n] : \A i \in 1..n : \A j \in 1..n : p[i] = p[j] => i = j}

RECURSIVE Log2(_)
\* int(math.log2(length)) for length >= 1
Log2(length) == IF length <= 1 THEN 0 ELSE 1 + Log2(length \div 2)

RECURSIVE ParseBase2(_, _)
\* int(s, base=2) of the digit string s, read left to right onto acc
ParseBase2(digits, acc) ==
    IF digits = <<>> THEN acc
    ELSE ParseBase2(Tail(digits), 2 * acc + Head(digits))

(***************************************************************************)
(* Exceptions and results of calls.                                        *)
(***************************************************************************)
None == 0

NoExc == [type |-> "", msg |-> "", args |-> <<>>]

ValueError(msg) == [type |-> "ValueError", msg |-> msg, args |-> <<>>]

\* abstract_emulator.OperandOutOfBoundsError(gate, size)
OperandOutOfBoundsError(g, size) ==
    [type |-> "OperandOutOfBoundsError",
     msg  |-> "attempted to access indices on a register of size",
     args |-> <<g.name, g.qubit_indices, size>>]

\* abstract_emulator.UnsupportedNumberOfQubits(gate), a ValueError subclass
UnsupportedNumberOfQubits(g) ==
    [type |-> "UnsupportedNumberOfQubits",
     msg  |-> "received qubits, but a maximum of 2 is supported",
     args |-> <<g.name, Len(g.qubit_indices)>>]

SizeMismatchMsg == "state_vector and circuit size mismatch"

EmptyMaxMsg == "max() arg is an empty sequence"

IndexError == [type |-> "IndexError", msg |-> "list index out of range", args |-> <<>>]

Returned(h, ref) == [heap |-> h, ret |-> ref, exc |-> NoExc]

Raised(h, e) == [heap |-> h, ret |-> None, exc |-> e]

(***************************************************************************)
(* The heap and StateVector.                                               *)
(***************************************************************************)
EmptyHeap == [lists |-> <<>>, svs |-> <<>>]

\* a new Python list object holding elems; its reference is Len(lists) + 1
AllocList(h, elems) == [h EXCEPT !.lists = Append(@, elems)]

RECURSIVE Zeros(_)
\* [0] * n
Zeros(n) == IF n <= 0 THEN <<>> ELSE Append(Zeros(n - 1), 0)

\* StateVector.length
sv_length(h, sv) == Pow2(h.svs[sv].num_qubits)

\* the position in the list that Python's list[key] reads or writes
Position(l, key) == IF key < 0 THEN Len(l) + key + 1 ELSE key + 1

\* whether self._vector[key] exists; Python raises IndexError otherwise
has_index(h, sv, key) ==
    LET l == h.lists[h.svs[sv].vector]
    IN  key < Len(l) /\ key >= 0 - Len(l)

\* StateVector.__getitem__
getitem(h, sv, key) ==
    LET l == h.lists[h.svs[sv].vector]
    IN  l[Position(l, key)]

\* StateVector.__setitem__
setitem(h, sv, key, value) ==
    LET ref == h.svs[sv].vector
    IN  [h EXCEPT !.lists[ref][Position(h.lists[ref], key)] = value]

\* the power-of-two test of from_list
IsPowerOfTwo(length) == length > 0 /\ BitAnd(length, length - 1) = 0

\* StateVector(initializer) for a list initializer: __init__ calls
\* from_list, which sets num_qubits and then the vector (through the setter,
\* whose length test cannot fail after the line above it).  The new object
\* keeps a reference to the caller's list; nothing is copied.
StateVector_from_list(h, lst) ==
    LET length == Len(h.lists[lst])
        num_qubits == Log2(length)
        obj == [num_qubits |-> num_qubits, vector |-> lst]
    IN  IF ~IsPowerOfTwo(length)
        THEN Raised(h, ValueError("Length of the new vector must be a power of 2."))
        ELSE IF length # Pow2(num_qubits)
        THEN Raised(h, ValueError("The new vector length does not match the expected length."))
        ELSE Returned([h EXCEPT !.svs = Append(@, obj)], Len(h.svs) + 1)

\* the vector setter of an existing object: self._vector = new_vector after
\* the length test
vector_setter(h, sv, new_vector) ==
    IF Len(h.lists[new_vector]) # sv_length(h, sv)
    THEN Raised(h, ValueError("The new vector length does not match the expected length."))
    ELSE Returned([h EXCEPT !.svs[sv].vector = new_vector], None)

\* StateVector.from_list on an existing object: num_qubits is set before
\* the vector is; returns self
from_list(h, sv, new_vector) ==
    LET length == Len(h.lists[new_vector])
    IN  IF ~IsPowerOfTwo(length)
        THEN Raised(h, ValueError("Length of the new vector must be a power of 2."))
        ELSE LET r == vector_setter([h EXCEPT !.svs[sv].num_qubits = Log2(length)],
                                    sv, new_vector)
             IN  IF r.exc # NoExc THEN r ELSE Returned(r.heap, sv)

\* [1, 0, ..., 0] of length 2 ** num_qubits
ZeroState(num_qubits) ==
    [i \in 1..Pow2(num_qubits) |-> IF i = 1 THEN 1 ELSE 0]

\* StateVector.from_num_qubits on an existing object; returns self
from_num_qubits(h, sv, num_qubits) ==
    IF num_qubits < 1
    THEN Raised(h, ValueError("Number of qubits must be a positive integer."))
    ELSE LET h1 == AllocList(h, ZeroState(num_qubits))
         IN  Returned([h1 EXCEPT !.svs[sv] =
                         [num_qubits |-> num_qubits, vector |-> Len(h1.lists)]],
                      sv)

\* StateVector(initializer) for an int initializer, with the test
\* num_qubits < 0: a count of 0 is accepted
StateVector_from_num_qubits_zero_ok(h, num_qubits) ==
    IF num_qubits < 0
    THEN Raised(h, ValueError("Number of qubits must be a positive integer."))
    ELSE LET h1 == AllocList(h, ZeroState(num_qubits))
             obj == [num_qubits |-> num_qubits, vector |-> Len(h1.lists)]
         IN  Returned([h1 EXCEPT !.svs = Append(@, obj)], Len(h1.svs) + 1)

\* StateVector(initializer) for an int initializer
StateVector_from_num_qubits(h, num_qubits) ==
    IF num_qubits < 1
    THEN Raised(h, ValueError("Number of qubits must be a positive integer."))
    ELSE LET h1 == AllocList(h, ZeroState(num_qubits))
             obj == [num_qubits |-> num_qubits, vector |-> Len(h1.lists)]
         IN  Returned([h1 EXCEPT !.svs = Append(@, obj)], Len(h1.svs) + 1)

\* StateVector.__init__: initializer is a list (ref), an int (val) or
\* something else
StateVector_init(h, initializer) ==
    IF initializer.kind = "list" THEN StateVector_from_list(h, initializer.ref)
    ELSE IF initializer.kind = "int" THEN StateVector_from_num_qubits(h, initializer.val)
    ELSE Raised(h, ValueError("You must provide either list of amplitudes or number of qubits."))

\* sv[key] = value, with the IndexError of the list
setitem_checked(h, sv, key, value) ==
    IF has_index(h, sv, key) THEN Returned(setitem(h, sv, key, value), None)
    ELSE Raised(h, IndexError)

\* the amplitudes of StateVector sv, as a value
Amplitudes(h, sv) == h.lists[h.svs[sv].vector]

(***************************************************************************)
(* Gate.                                                                   *)
(***************************************************************************)
\* Gate.__init__: the matrix is square and has 2 ** len(qubit_indices) rows
GateShapeOk(qubit_indices, matrix) ==
    /\ \A r \in 1..Len(matrix) : Len(matrix[r]) = Len(matrix)
    /\ Len(matrix) = Pow2(Len(qubit_indices))

\* the Gate object Gate(qubit_indices, matrix) with the default name
Gate(qubit_indices, matrix) ==
    [name |-> "custom", qubit_indices |-> qubit_indices, matrix |-> matrix]

\* matrix.shape of a two-dimensional array given by its rows
shape(matrix) == <<Len(matrix), IF matrix = <<>> THEN 0 ELSE Len(matrix[1])>>

\* Gate.__init__ without the test that the matrix is square
Gate_init_rows_only(qubit_indices, matrix) ==
    IF shape(matrix)[1] # Pow2(Len(qubit_indices))
    THEN [exc |-> ValueError("Matrix size mismatch"), val |-> None]
    ELSE [exc |-> NoExc, val |-> Gate(qubit_indices, matrix)]

\* Gate.__init__: the outcome of Gate(qubit_indices, matrix)
Gate_init(qubit_indices, matrix) ==
    LET n_qubits == Len(qubit_indices)
        matrix_size == shape(matrix)[1]
        expected_size == Pow2(n_qubits)
    IN  IF matrix_size # shape(matrix)[2]
        THEN [exc |-> ValueError("The gate matrix must be square (equal number of rows and columns)."),
              val |-> None]
        ELSE IF matrix_size # expected_size
        THEN [exc |-> ValueError("Matrix size mismatch"), val |-> None]
        ELSE [exc |-> NoExc, val |-> Gate(qubit_indices, matrix)]

(***************************************************************************)
(* MyEmulator.                                                             *)
(***************************************************************************)
\* __replace_bit__ that clears by subtraction: num - (1 << loc) when val is 0
replace_bit_subtract(num, loc, val) ==
    IF val # 0
    THEN BitOr(num, ShiftLeft(1, loc))
    ELSE num - ShiftLeft(1, loc)

\* MyEmulator.__replace_bit__
replace_bit(num, loc, val) ==
    IF val # 0
    THEN BitOr(num, ShiftLeft(1, loc))
    ELSE BitAnd(num, BitNot(ShiftLeft(1, loc)))

RECURSIVE replace_bits_loop(_, _, _)
\* the loop of __replace_bits__ over zip(locs, vals)
replace_bits_loop(result, locs, vals) ==
    IF locs = <<>> \/ vals = <<>> THEN result
    ELSE replace_bits_loop(replace_bit(result, Head(locs), Head(vals)),
                           Tail(locs), Tail(vals))

\* __replace_bits__ without its assertion: zip stops at the shorter list
replace_bits_zip(num, locs, vals) ==
    [exc |-> NoExc, val |-> replace_bits_loop(num, locs, vals)]

\* MyEmulator.__replace_bits__
replace_bits(num, locs, vals) ==
    IF Len(locs) # Len(vals)
    THEN [exc |-> [type |-> "AssertionError",
                   msg  |-> "Number indeces != number of values",
                   args |-> <<>>],
          val |-> None]
    ELSE [exc |-> NoExc, val |-> replace_bits_loop(num, locs, vals)]

\* output = input: the loops then write into the caller's vector
new_output_alias(h, in) == Returned(h, in)

\* output = StateVector([0] * input.length)
new_output(h, in) ==
    LET h1 == AllocList(h, Zeros(sv_length(h, in)))
    IN  StateVector_from_list(h1, Len(h1.lists))

\* output[index] = input[running_index] * matrix[j_k, i_k]: the term
\* replaces the sum instead of being added to it
apply1Q_step_overwrite(h, in, out, matrix, qubit_index, index, i_k) ==
    LET j_k == BitAnd(ShiftRight(index, qubit_index), 1)
        running_index == replace_bit(index, qubit_index, i_k)
    IN  IF ~has_index(h, out, index) \/ ~has_index(h, in, running_index)
        THEN Raised(h, IndexError)
        ELSE Returned(setitem(h, out, index,
                        getitem(h, in, running_index) * matrix[j_k + 1][i_k + 1]),
                      None)

\* output[index] += input[running_index] * matrix[i_k, j_k]: the matrix
\* indices exchanged
apply1Q_step_transposed(h, in, out, matrix, qubit_index, index, i_k) ==
    LET j_k == BitAnd(ShiftRight(index, qubit_index), 1)
        running_index == replace_bit(index, qubit_index, i_k)
    IN  IF ~has_index(h, out, index) \/ ~has_index(h, in, running_index)
        THEN Raised(h, IndexError)
        ELSE Returned(setitem(h, out, index,
                        getitem(h, out, index)
                          + getitem(h, in, running_index) * matrix[i_k + 1][j_k + 1]),
                      None)

\* the body of the loops of __apply1Q__, for one index and one i_k:
\* output[index] += input[running_index] * matrix[j_k, i_k]
apply1Q_step(h, in, out, matrix, qubit_index, index, i_k) ==
    LET j_k == BitAnd(ShiftRight(index, qubit_index), 1)
        running_index == replace_bit(index, qubit_index, i_k)
    IN  IF ~has_index(h, out, index) \/ ~has_index(h, in, running_index)
        THEN Raised(h, IndexError)
        ELSE Returned(setitem(h, out, index,
                        getitem(h, out, index)
                          + getitem(h, in, running_index) * matrix[j_k + 1][i_k + 1]),
                      None)

\* the loops of __apply1Q__: k counts the pairs (index, i_k) in order, each
\* step works on the heap the step before it left, and an exception ends
\* the loops; the result is the heap and the output vector
apply1Q_loop(h, in, out, matrix, qubit_index, k0) ==
    LET n == 2 * sv_length(h, out)
        RECURSIVE run(_, _)
        run(hh, k) ==
            IF k >= n THEN Returned(hh, out)
            ELSE CHOOSE r \in
                   {IF s.exc # NoExc THEN s ELSE run(s.heap, k2) :
                      s \in {apply1Q_step(hh, in, out, matrix, qubit_index,
                                          k \div 2, k % 2)},
                      k2 \in {k + 1}} : TRUE
    IN  run(h, k0)

\* MyEmulator.__apply1Q__
apply1Q(h, in, g) ==
    LET qubit_index == g.qubit_indices[1]
        c == new_output(h, in)
    IN  apply1Q_loop(c.heap, in, c.ret, g.matrix, qubit_index, 0)

\* bra = int(f'{j_k1}{j_k2}', base=2): the first target as the high bit
bra_index_swapped(j_k1, j_k2) == ParseBase2(<<j_k1, j_k2>>, 0)

\* bra = int(f'{j_k2}{j_k1}', base=2)
bra_index(j_k1, j_k2) == ParseBase2(<<j_k2, j_k1>>, 0)

\* ket = int(f'{i_k1}{i_k2}', base=2): the first target as the high bit
ket_index_swapped(i_k1, i_k2) == ParseBase2(<<i_k1, i_k2>>, 0)

\* ket = int(f'{i_k2}{i_k1}', base=2)
ket_index(i_k1, i_k2) == ParseBase2(<<i_k2, i_k1>>, 0)

\* qubit1_index, qubit2_index = sorted(gate.qubit_indices)
apply2Q_targets_sorted(g) ==
    IF g.qubit_indices[1] <= g.qubit_indices[2]
    THEN <<g.qubit_indices[1], g.qubit_indices[2]>>
    ELSE <<g.qubit_indices[2], g.qubit_indices[1]>>

\* qubit1_index, qubit2_index = gate.qubit_indices
apply2Q_targets(g) == <<g.qubit_indices[1], g.qubit_indices[2]>>

\* the body of the loops of __apply2Q__, for one index and one (i_k1, i_k2):
\* output[index] += input[running_index] * matrix[bra][ket]
apply2Q_step(h, in, out, matrix, qubit1_index, qubit2_index, index, i_k1, i_k2) ==
    LET j_k1 == BitAnd(ShiftRight(index, qubit1_index), 1)
        j_k2 == BitAnd(ShiftRight(index, qubit2_index), 1)
        bra == bra_index(j_k1, j_k2)
        running_index ==
            replace_bits(index, <<qubit1_index, qubit2_index>>, <<i_k1, i_k2>>).val
        ket == ket_index(i_k1, i_k2)
    IN  IF ~has_index(h, out, index) \/ ~has_index(h, in, running_index)
        THEN Raised(h, IndexError)
        ELSE Returned(setitem(h, out, index,
                        getitem(h, out, index)
                          + getitem(h, in, running_index) * matrix[bra + 1][ket + 1]),
                      None)

\* the loops of __apply2Q__: k counts the triples (index, i_k1, i_k2) in
\* order, each step works on the heap the step before it left, and an
\* exception ends the loops; the result is the heap and the output vector
apply2Q_loop(h, in, out, matrix, qubit1_index, qubit2_index, k0) ==
    LET n == 4 * sv_length(h, out)
        RECURSIVE run(_, _)
        run(hh, k) ==
            IF k >= n THEN Returned(hh, out)
            ELSE CHOOSE r \in
                   {IF s.exc # NoExc THEN s ELSE run(s.heap, k2) :
                      s \in {apply2Q_step(hh, in, out, matrix, qubit1_index, qubit2_index,
                                          k \div 4, (k % 4) \div 2, k % 2)},
                      k2 \in {k + 1}} : TRUE
    IN  run(h, k0)

\* MyEmulator.__apply2Q__
apply2Q(h, in, g) ==
    LET t == apply2Q_targets(g)
        c == new_output(h, in)
    IN  apply2Q_loop(c.heap, in, c.ret, g.matrix, t[1], t[2], 0)

\* any(id > input.num_qubits for id in qubit_indeces): off by one
OutOfBounds_off_by_one(qubit_indeces, num_qubits) ==
    \E i \in 1..Len(qubit_indeces) : qubit_indeces[i] > num_qubits

\* any(id >= input.num_qubits for id in qubit_indeces)
OutOfBounds(qubit_indeces, num_qubits) ==
    \E i \in 1..Len(qubit_indeces) : qubit_indeces[i] >= num_qubits

\* apply_gate without its last raise: output stays None and is returned
apply_gate_no_raise(h, g, in) ==
    LET qubit_indeces == g.qubit_indices
    IN  IF \E i \in 1..Len(qubit_indeces) : qubit_indeces[i] >= h.svs[in].num_qubits
        THEN Raised(h, OperandOutOfBoundsError(g, h.svs[in].num_qubits))
        ELSE IF Len(qubit_indeces) = 1 THEN apply1Q(h, in, g)
        ELSE IF Len(qubit_indeces) = 2 THEN apply2Q(h, in, g)
        ELSE Returned(h, None)

\* MyEmulator.apply_gate
apply_gate(h, g, in) ==
    LET qubit_indeces == g.qubit_indices
    IN  IF OutOfBounds(qubit_indeces, h.svs[in].num_qubits)
        THEN Raised(h, OperandOutOfBoundsError(g, h.svs[in].num_qubits))
        ELSE IF Len(qubit_indeces) = 1 THEN apply1Q(h, in, g)
        ELSE IF Len(qubit_indeces) = 2 THEN apply2Q(h, in, g)
        ELSE Raised(h, UnsupportedNumberOfQubits(g))

\* MyEmulator.apply_gate of src/emulator.py, the variant with the inplace
\* argument: locals are the local names of the call, and the assignment
\* under "if (inplace)" binds the local name state_vector to the output
apply_gate_top(h, g, state_vector, inplace) ==
    LET qubit_indeces == g.qubit_indices
        r == IF Len(qubit_indeces) = 1 THEN apply1Q(h, state_vector, g)
             ELSE IF Len(qubit_indeces) = 2 THEN apply2Q(h, state_vector, g)
             ELSE Raised(h, UnsupportedNumberOfQubits(g))
    IN  IF OutOfBounds(qubit_indeces, h.svs[state_vector].num_qubits)
        THEN Raised(h, OperandOutOfBoundsError(g, h.svs[state_vector].num_qubits))
        ELSE IF r.exc # NoExc THEN r
        ELSE LET locals == [state_vector |-> IF inplace THEN r.ret ELSE state_vector,
                            output_state_vector |-> r.ret]
             IN  Returned(r.heap, locals.output_state_vector)

(***************************************************************************)
(* QuantumCircuit and MyEmulator.apply_circuit.                            *)
(***************************************************************************)
RECURSIVE MaxOf(_)
\* max(seq) of a non-empty sequence of integers
MaxOf(seq) ==
    IF Len(seq) = 1 THEN seq[1]
    ELSE LET m == MaxOf(Tail(seq)) IN IF seq[1] >= m THEN seq[1] ELSE m

\* max(self.gates[-1].qubit_indices) + 1: only the gate appended last counts
circuit_num_qubits_last_gate(gates) ==
    IF gates = <<>> THEN [exc |-> NoExc, val |-> 0]
    ELSE IF \E i \in 1..Len(gates) : gates[i].qubit_indices = <<>>
    THEN [exc |-> ValueError(EmptyMaxMsg), val |-> None]
    ELSE [exc |-> NoExc, val |-> MaxOf(gates[Len(gates)].qubit_indices) + 1]

\* QuantumCircuit.num_qubits: max(gate.qubit_indices) raises ValueError for a
\* gate without targets
circuit_num_qubits(gates) ==
    IF gates = <<>> THEN [exc |-> NoExc, val |-> 0]
    ELSE IF \E i \in 1..Len(gates) : gates[i].qubit_indices = <<>>
    THEN [exc |-> ValueError(EmptyMaxMsg), val |-> None]
    ELSE [exc |-> NoExc,
          val |-> MaxOf([i \in 1..Len(gates) |-> MaxOf(gates[i].qubit_indices)]) + 1]

\* min instead of max: the gate goes where its least busy qubit is free
layer_of_min(qubit_to_current_layer, qubit_indeces) ==
    0 - MaxOf([k \in 1..Len(qubit_indeces) |->
                 0 - qubit_to_current_layer[qubit_indeces[k] + 1]])

\* max(qubit_to_current_layer): the gate goes after every gate before it
layer_of_serial(qubit_to_current_layer, qubit_indeces) ==
    MaxOf(qubit_to_current_layer)

\* qubit_to_current_layer[qubit_indeces[0]]: only the first target of the
\* gate is looked at
layer_of_first(qubit_to_current_layer, qubit_indeces) ==
    qubit_to_current_layer[qubit_indeces[1] + 1]

\* max([qubit_to_current_layer[qubit_id] for qubit_id in qubit_indeces])
layer_of(qubit_to_current_layer, qubit_indeces) ==
    MaxOf([k \in 1..Len(qubit_indeces) |->
             qubit_to_current_layer[qubit_indeces[k] + 1]])

\* maximum_layer + 2: one layer too far
next_layer_skip(maximum_layer) == maximum_layer + 2

\* maximum_layer + 1: the next free layer of the qubits of the gate
next_layer(maximum_layer) == maximum_layer + 1

\* qubit_to_current_layer[qubit_indeces[0]] = value: only the first target
mark_first(qubit_to_current_layer, qubit_indeces, value) ==
    [q \in 1..Len(qubit_to_current_layer) |->
       IF qubit_indeces[1] + 1 = q THEN value ELSE qubit_to_current_layer[q]]

\* every qubit of the register is marked, not only the targets of the gate
mark_all(qubit_to_current_layer, qubit_indeces, value) ==
    [q \in 1..Len(qubit_to_current_layer) |-> value]

\* for qubit_id in qubit_indeces: qubit_to_current_layer[qubit_id] = value
mark(qubit_to_current_layer, qubit_indeces, value) ==
    [q \in 1..Len(qubit_to_current_layer) |->
       IF \E k \in 1..Len(qubit_indeces) : qubit_indeces[k] + 1 = q
       THEN value ELSE qubit_to_current_layer[q]]

\* layer_to_gate_indeces[maximum_layer] = [i]: the layer is replaced
place_overwrite(layer_to_gate_indeces, maximum_layer, i) ==
    LET grown == IF maximum_layer >= Len(layer_to_gate_indeces)
                 THEN Append(layer_to_gate_indeces, <<>>)
                 ELSE layer_to_gate_indeces
    IN  IF maximum_layer >= Len(grown) THEN <<"IndexError">>
        ELSE [grown EXCEPT ![maximum_layer + 1] = <<i>>]

\* if maximum_layer >= len(layer_to_gate_indeces): append a new layer;
\* layer_to_gate_indeces[maximum_layer].append(i).  The result is the new
\* list of layers, or <<"IndexError">> when there is no such layer.
place(layer_to_gate_indeces, maximum_layer, i) ==
    LET grown == IF maximum_layer >= Len(layer_to_gate_indeces)
                 THEN Append(layer_to_gate_indeces, <<>>)
                 ELSE layer_to_gate_indeces
    IN  IF maximum_layer >= Len(grown) THEN <<"IndexError">>
        ELSE [grown EXCEPT ![maximum_layer + 1] = Append(@, i)]

RECURSIVE compression_loop(_, _, _, _)
\* the loop of compression_list from gate number i (0-based) on; reading
\* qubit_to_current_layer past its end raises IndexError
compression_loop(gates, qubit_to_current_layer, layer_to_gate_indeces, i) ==
    IF i >= Len(gates) THEN [exc |-> NoExc, val |-> layer_to_gate_indeces]
    ELSE LET qubit_indeces == gates[i + 1].qubit_indices
         IN  IF qubit_indeces = <<>>
             THEN [exc |-> ValueError(EmptyMaxMsg), val |-> None]
             ELSE IF \E k \in 1..Len(qubit_indeces) :
                        qubit_indeces[k] >= Len(qubit_to_current_layer)
             THEN [exc |-> IndexError, val |-> None]
             ELSE LET maximum_layer == layer_of(qubit_to_current_layer, qubit_indeces)
                      placed == place(layer_to_gate_indeces, maximum_layer, i)
                  IN  IF placed = <<"IndexError">>
                      THEN [exc |-> IndexError, val |-> None]
                      ELSE compression_loop(gates,
                             mark(qubit_to_current_layer, qubit_indeces,
                                  next_layer(maximum_layer)),
                             placed, i + 1)

\* QuantumCircuit.compression_list
compression_list(gates) ==
    IF gates = <<>> THEN [exc |-> NoExc, val |-> <<>>]
    ELSE LET n == circuit_num_qubits(gates)
         IN  IF n.exc # NoExc THEN [exc |-> n.exc, val |-> None]
             ELSE compression_loop(gates, Zeros(n.val), <<>>, 0)

\* QuantumCircuit.depth
depth(gates) ==
    LET l == compression_list(gates)
    IN  IF l.exc # NoExc THEN l ELSE [exc |-> NoExc, val |-> Len(l.val)]

\* QuantumCircuit.append
append(gates, g) == Append(gates, g)

(***************************************************************************)
(* QuantumCircuit objects: a heap of gate lists and of circuits, each      *)
(* circuit holding a reference to its gate list.                           *)
(***************************************************************************)
EmptyCircuitHeap == [lists |-> <<>>, circuits |-> <<>>]

\* self.gates of circuit c, as a value
gates_of(h, c) == h.lists[h.circuits[c]]

\* QuantumCircuit.__init__: gates is None or a reference to the caller's
\* list; self.gates = [] or self.gates = gates
QuantumCircuit_init(h, gates) ==
    IF gates = None
    THEN Returned([lists |-> Append(h.lists, <<>>),
                   circuits |-> Append(h.circuits, Len(h.lists) + 1)],
                  Len(h.circuits) + 1)
    ELSE Returned([h EXCEPT !.circuits = Append(@, gates)], Len(h.circuits) + 1)

\* QuantumCircuit.append on the object c: self.gates.append(gate)
QuantumCircuit_append(h, c, g) ==
    [h EXCEPT !.lists[h.circuits[c]] = append(@, g)]

\* the test of concat before its loop: the exception it raises, or NoExc
concat_check(h, self, other) ==
    LET theirs == circuit_num_qubits(gates_of(h, other))
        ours == circuit_num_qubits(gates_of(h, self))
    IN  IF theirs.exc # NoExc THEN theirs.exc
        ELSE IF ours.exc # NoExc THEN ours.exc
        ELSE IF theirs.val # ours.val THEN ValueError("Circuit size mismatch")
        ELSE NoExc

\* "for gate in other_circuit.gates" after i iterations: the list iterator
\* yields element i as long as i is below the length the list has now
concat_has_next(h, other, i) == i < Len(gates_of(h, other))

\* the body of the loop for the element at index i: self.append(gate)
concat_body(h, self, other, i) ==
    QuantumCircuit_append(h, self, gates_of(h, other)[i + 1])

\* circuit.num_qubits > state_vector.num_qubits: a circuit that leaves the
\* highest qubits idle gets through
size_mismatch_only_larger(circuit_qubits, state_qubits) == circuit_qubits > state_qubits

\* circuit.num_qubits != state_vector.num_qubits
size_mismatch(circuit_qubits, state_qubits) == circuit_qubits # state_qubits

RECURSIVE apply_circuit_loop_stale(_, _, _, _, _)
\* the loop with apply_gate(gate, state_vector): every gate consumes the
\* input of the call instead of the previous output
apply_circuit_loop_stale(h, gates, state_vector, output, i) ==
    IF i > Len(gates) THEN Returned(h, output)
    ELSE LET r == apply_gate(h, gates[i], state_vector)
         IN  IF r.exc # NoExc THEN r
             ELSE apply_circuit_loop_stale(r.heap, gates, state_vector, r.ret, i + 1)

RECURSIVE apply_circuit_loop_partial(_, _, _, _, _)
\* the loop with the exception of apply_gate caught: the result of the
\* gates before the failing one is returned
apply_circuit_loop_partial(h, gates, state_vector, output, i) ==
    IF i > Len(gates) THEN Returned(h, output)
    ELSE LET r == apply_gate(h, gates[i], output)
         IN  IF r.exc # NoExc THEN Returned(h, output)
             ELSE apply_circuit_loop_partial(r.heap, gates, state_vector, r.ret, i + 1)

RECURSIVE apply_circuit_loop(_, _, _, _, _)
\* the loop of apply_circuit, from gate number i on: output holds the
\* result of the gates before i; an exception of apply_gate ends the call
apply_circuit_loop(h, gates, state_vector, output, i) ==
    IF i > Len(gates) THEN Returned(h, output)
    ELSE LET r == apply_gate(h, gates[i], output)
         IN  IF r.exc # NoExc THEN r
             ELSE apply_circuit_loop(r.heap, gates, state_vector, r.ret, i + 1)

\* MyEmulator.apply_circuit
apply_circuit(h, gates, state_vector) ==
    LET n == circuit_num_qubits(gates)
    IN  IF n.exc # NoExc THEN Raised(h, n.exc)
        ELSE IF size_mismatch(n.val, h.svs[state_vector].num_qubits)
        THEN Raised(h, ValueError(SizeMismatchMsg))
        ELSE apply_circuit_loop(h, gates, state_vector, state_vector, 1)

(***************************************************************************)
(* Matrices (definitions.py) and the inputs of the model.                  *)
(***************************************************************************)
I2 == <<<<1, 0>>, <<0, 1>>>>

X == <<<<0, 1>>, <<1, 0>>>>

Z == <<<<1, 0>>, <<0, -1>>>>

CX == <<<<1, 0, 0, 0>>, <<0, 0, 0, 1>>, <<0, 0, 1, 0>>, <<0, 1, 0, 0>>>>

CZ == <<<<1, 0, 0, 0>>, <<0, 1, 0, 0>>, <<0, 0, 1, 0>>, <<0, 0, 0, -1>>>>

\* the n x n identity, np.eye(n)
Identity(n) == [r \in 1..n |-> [c \in 1..n |-> IF r = c THEN 1 ELSE 0]]

\* a shear: invertible, not symmetric, does not commute with X
Shear == <<<<1, 1>>, <<0, 1>>>>

\* the cyclic shift of the four local basis states, and its inverse
Cycle == <<<<0, 0, 0, 1>>, <<1, 0, 0, 0>>, <<0, 1, 0, 0>>, <<0, 0, 1, 0>>>>

CycleInv == <<<<0, 1, 0, 0>>, <<0, 0, 1, 0>>, <<0, 0, 0, 1>>, <<1, 0, 0, 0>>>>

\* sixteen distinct entries: no two positions of the matrix look alike
Ramp4 == [r \in 1..4 |-> [c \in 1..4 |-> 4 * (r - 1) + c]]

\* a single 1 at row r, column c
Unit4(r, c) == [i \in 1..4 |-> [j \in 1..4 |-> IF i = r /\ j = c THEN 1 ELSE 0]]

\* the exchange of the two local bits
SWAP == <<<<1, 0, 0, 0>>, <<0, 0, 1, 0>>, <<0, 1, 0, 0>>, <<0, 0, 0, 1>>>>

\* the inverse of Shear
ShearInv == <<<<1, -1>>, <<0, 1>>>>

\* a quarter turn and its inverse
Turn == <<<<0, -1>>, <<1, 0>>>>

TurnInv == <<<<0, 1>>, <<-1, 0>>>>

\* four distinct entries
Ramp2 == <<<<1, 2>>, <<3, 4>>>>

\* every 2 x 2 matrix with entries 0 or 1 (I2, X and Shear among them), and
\* the signed matrices above
Mat2 == {<<<<a, b>>, <<c, d>>>> : a \in 0..1, b \in 0..1, c \in 0..1, d \in 0..1}
          \cup {Z, ShearInv, Turn, TurnInv, Ramp2}

Mat4 == {Identity(4), CX, CZ, SWAP, Cycle, CycleInv, Ramp4,
         Unit4(1, 4), Unit4(2, 2), Unit4(2, 3)}

\* the matrices of the model with n rows
MatricesOfSize(n) == IF n = 2 THEN Mat2 ELSE IF n = 4 THEN Mat4 ELSE {Identity(n)}

\* the product a . b of two square matrices of one size
MatMul(a, b) ==
    LET n == Len(a)
        RECURSIVE Dot(_, _, _)
        Dot(r, c, k) == IF k = 0 THEN 0 ELSE a[r][k] * b[k][c] + Dot(r, c, k - 1)
    IN  [r \in 1..n |-> [c \in 1..n |-> Dot(r, c, n)]]

\* target indices of the model: MaxQubits itself is out of range for every register
Targets == 0..MaxQubits

\* the gates handed to apply_gate: every one passes Gate.__init__
Gates ==
    {Gate(<<t>>, m) : t \in Targets, m \in Mat2}
      \cup {Gate(<<t1, t2>>, m) : t1 \in Targets, t2 \in Targets, m \in Mat4}
      \cup {Gate(<<>>, Identity(1)),
            Gate(<<0, 1, 2>>, Identity(8)),
            Gate(<<0, 1, MaxQubits>>, Identity(8))}

\* amplitude lists of length 2 ** n: the basis states, and two lists all of
\* whose amplitudes differ
Basis(n) == {[i \in 1..Pow2(n) |-> IF i = k THEN 1 ELSE 0] : k \in 1..Pow2(n)}

Ramp(n) == [i \in 1..Pow2(n) |-> i]

Signed(n) == [i \in 1..Pow2(n) |-> IF i % 2 = 0 THEN 0 - i ELSE i + 1]

AmplitudeLists(n) == Basis(n) \cup {Ramp(n), Signed(n)}

\* the heap after  input = StateVector(amplitudes)
HeapWith(amplitudes) == StateVector_from_list(AllocList(EmptyHeap, amplitudes), 1).heap

(***************************************************************************)
(* One engine call on one gate: apply_gate, and then the gate of the       *)
(* inverse matrix on the result.                                           *)
(***************************************************************************)
Init ==
    /\ \E n \in 0..MaxQubits : \E a \in AmplitudeLists(n) : heap = HeapWith(a)
    /\ pre = heap
    /\ gate \in Gates
    /\ circuit = <<>>
    /\ input = 1
    /\ calls = <<>>
    /\ pc = "ready"

Call(op, what, arg, r) ==
    [op |-> op, what |-> what, arg |-> arg, ret |-> r.ret, exc |-> r.exc]

\* output = emulator.apply_gate(gate, input)
ApplyGate ==
    /\ pc = "ready"
    /\ LET r == apply_gate(heap, gate, input)
       IN  /\ heap' = r.heap
           /\ calls' = Append(calls, Call("apply_gate", gate, input, r))
    /\ pre' = heap
    /\ pc' = "applied"
    /\ UNCHANGED <<gate, circuit, input>>

\* back = emulator.apply_gate(Gate(gate.qubit_indices, inverse), output)
ApplyInverse ==
    /\ pc = "applied"
    /\ calls[1].exc = NoExc
    /\ \E m \in MatricesOfSize(Len(gate.matrix)) :
          /\ MatMul(m, gate.matrix) = Identity(Len(gate.matrix))
          /\ LET g == Gate(gate.qubit_indices, m)
                 r == apply_gate(heap, g, calls[1].ret)
             IN  /\ heap' = r.heap
                 /\ calls' = Append(calls, Call("apply_gate", g, calls[1].ret, r))
    /\ pre' = heap
    /\ pc' = "undone"
    /\ UNCHANGED <<gate, circuit, input>>

Next == ApplyGate \/ ApplyInverse

Spec == Init /\ [][Next]_vars

(***************************************************************************)
(* Properties of apply_gate, checked under Spec.                           *)
(***************************************************************************)
\* the qubit count and the amplitudes of the input when apply_gate started
InputQubits == pre.svs[input].num_qubits

InputAmplitudes == Amplitudes(pre, input)

\* the amplitudes of the vector the first call returned
Output == Amplitudes(heap, calls[1].ret)

\* bit t of idx, and idx with bit t set to v, by arithmetic
RefBit(idx, t) == (idx \div (2 ^ t)) % 2

RefWithBit(idx, t, v) == idx - RefBit(idx, t) * (2 ^ t) + v * (2 ^ t)

\* all targets of g are qubits of a register of n qubits
InRange(g, n) == \A i \in 1..Len(g.qubit_indices) : g.qubit_indices[i] < n

\* no qubit is listed twice among the targets of g
DistinctTargets(g) ==
    \A i \in 1..Len(g.qubit_indices) : \A j \in 1..Len(g.qubit_indices) :
        i # j => g.qubit_indices[i] # g.qubit_indices[j]

\* the amplitudes apply_gate returns for gate g on a vector of the given
\* amplitudes; the empty list when it raises
GateResult(g, amplitudes) ==
    LET r == apply_gate(HeapWith(amplitudes), g, 1)
    IN  IF r.exc = NoExc THEN Amplitudes(r.heap, r.ret) ELSE <<>>

\* C1: a gate with a target index >= the qubit count of the state makes
\* apply_gate raise OperandOutOfBoundsError and return nothing, however many
\* targets the gate has and whichever of them is out of range.
C1_OutOfBoundsRaises ==
    (pc = "applied" /\ ~InRange(gate, InputQubits))
      => /\ calls[1].exc.type = "OperandOutOfBoundsError"
         /\ calls[1].ret = None

\* C1 witness: Gate([0, 2], CX) on a two-qubit state, the second target
\* being the one out of range.
C1_Witness ==
    /\ pc = "applied"
    /\ gate.qubit_indices = <<0, 2>>
    /\ InputQubits = 2
    /\ calls[1].exc.type = "OperandOutOfBoundsError"

\* C2: a gate with neither 1 nor 2 targets, all of them in range, makes
\* apply_gate raise UnsupportedNumberOfQubits; nothing is returned and
\* nothing is allocated or applied (the heap is as before).
C2_UnsupportedCountRaises ==
    (pc = "applied" /\ Len(gate.qubit_indices) \notin {1, 2} /\ InRange(gate, InputQubits))
      => /\ calls[1].exc.type = "UnsupportedNumberOfQubits"
         /\ calls[1].ret = None
         /\ heap = pre

\* C2 witness: the three-target gate on qubits 0, 1, 2 of a three-qubit state.
C2_Witness ==
    /\ pc = "applied"
    /\ gate.qubit_indices = <<0, 1, 2>>
    /\ InputQubits = 3
    /\ calls[1].exc.type = "UnsupportedNumberOfQubits"

\* C3: after an apply_gate call, returned or raised, the vector it was
\* given has the qubit count, the buffer and the amplitudes it had before;
\* a returned vector has the length of the input.
C3_ApplyGatePure ==
    pc \in {"applied", "undone"} =>
      LET c == calls[Len(calls)]
          buf == pre.svs[c.arg].vector
      IN  /\ heap.svs[c.arg] = pre.svs[c.arg]
          /\ heap.lists[buf] = pre.lists[buf]
          /\ c.exc = NoExc =>
               /\ Len(Amplitudes(heap, c.ret)) = Len(Amplitudes(pre, c.arg))
               /\ sv_length(heap, c.ret) = sv_length(pre, c.arg)

\* C3 witness: a gate was applied and its result differs from the input.
C3_Witness ==
    /\ pc = "applied"
    /\ calls[1].exc = NoExc
    /\ Output # Amplitudes(heap, input)

\* C7: for a single in-range target t and matrix M, apply_gate returns and
\* output[idx] = input[idx with bit t cleared] * M[j][0]
\*                 + input[idx with bit t set] * M[j][1],  j = bit t of idx;
\* Pauli X on [0] of the state [1, 0] gives [0, 1].
C7_SingleTargetFormula ==
    (pc = "applied" /\ Len(gate.qubit_indices) = 1 /\ InRange(gate, InputQubits))
      => /\ calls[1].exc = NoExc
         /\ Len(Output) = 2 ^ InputQubits
         /\ LET t == gate.qubit_indices[1]
                M == gate.matrix
            IN  \A idx \in 0..(2 ^ InputQubits - 1) :
                  LET j == RefBit(idx, t)
                  IN  Output[idx + 1] =
                        InputAmplitudes[RefWithBit(idx, t, 0) + 1] * M[j + 1][1]
                          + InputAmplitudes[RefWithBit(idx, t, 1) + 1] * M[j + 1][2]
         /\ (gate.qubit_indices = <<0>> /\ gate.matrix = X /\ InputAmplitudes = <<1, 0>>)
              => Output = <<0, 1>>

\* C7 witness: a matrix of four distinct entries on the middle qubit of a
\* three-qubit state all of whose amplitudes differ.
C7_Witness ==
    /\ pc = "applied"
    /\ gate.qubit_indices = <<1>>
    /\ gate.matrix = Ramp2
    /\ InputAmplitudes = Signed(3)
    /\ calls[1].exc = NoExc

\* C8: for two distinct in-range targets (t1, t2) and matrix M, apply_gate
\* returns and output[idx] is the sum over (i1, i2) of
\* input[idx with bit t1 := i1, bit t2 := i2] * M[2*j2 + j1][2*i2 + i1],
\* j1, j2 the bits of idx at t1, t2: the second target is the high bit.
C8_TwoTargetFormula ==
    (pc = "applied" /\ Len(gate.qubit_indices) = 2 /\ InRange(gate, InputQubits)
       /\ DistinctTargets(gate))
      => /\ calls[1].exc = NoExc
         /\ Len(Output) = 2 ^ InputQubits
         /\ LET t1 == gate.qubit_indices[1]
                t2 == gate.qubit_indices[2]
                M == gate.matrix
                Src(idx, i1, i2) == RefWithBit(RefWithBit(idx, t1, i1), t2, i2)
                Term(idx, i1, i2) ==
                    InputAmplitudes[Src(idx, i1, i2) + 1]
                      * M[2 * RefBit(idx, t2) + RefBit(idx, t1) + 1][2 * i2 + i1 + 1]
            IN  \A idx \in 0..(2 ^ InputQubits - 1) :
                  Output[idx + 1] =
                    Term(idx, 0, 0) + Term(idx, 1, 0) + Term(idx, 0, 1) + Term(idx, 1, 1)

\* C8 witness: targets (2, 0), the first above the second, with a matrix of
\* sixteen distinct entries.
C8_Witness ==
    /\ pc = "applied"
    /\ gate.qubit_indices = <<2, 0>>
    /\ gate.matrix = Ramp4
    /\ InputAmplitudes = Signed(3)
    /\ calls[1].exc = NoExc

\* the local index with its two bits exchanged (1 <-> 2)
SwapLocal(i) == 2 * (i % 2) + (i \div 2)

\* matrix M is unchanged by exchanging local indices 1 and 2 in rows and columns
SwapInvariant(M) ==
    \A r \in 0..3 : \A c \in 0..3 : M[SwapLocal(r) + 1][SwapLocal(c) + 1] = M[r + 1][c + 1]

\* C9: the order of the targets matters.  For a matrix M applied on [0, 1]:
\* the results on [0, 1] and on [1, 0] agree on every state exactly when M
\* is unchanged by exchanging local indices 1 and 2 in rows and columns;
\* the CX matrix on (a, b, c, d) gives (a, d, c, b) on [0, 1] and
\* (a, b, d, c) on [1, 0].  (The first part does not depend on the input of
\* the call, and is evaluated once per gate and register size.)
C9_TargetOrderObservable ==
    (pc = "applied" /\ gate.qubit_indices = <<0, 1>> /\ InRange(gate, InputQubits))
      => LET rev == Gate(<<1, 0>>, gate.matrix)
             in == InputAmplitudes
         IN  /\ in = Ramp(InputQubits) =>
                  ((\A s \in AmplitudeLists(InputQubits) :
                       GateResult(gate, s) = GateResult(rev, s))
                     <=> SwapInvariant(gate.matrix))
             /\ (gate.matrix = CX /\ InputQubits = 2) =>
                  /\ Output = <<in[1], in[4], in[3], in[2]>>
                  /\ GateResult(rev, in) = <<in[1], in[2], in[4], in[3]>>

\* C9 witness: CX on [0, 1] of a two-qubit state of distinct amplitudes,
\* where the result differs from the one on [1, 0].
C9_Witness ==
    /\ pc = "applied"
    /\ gate.qubit_indices = <<0, 1>>
    /\ gate.matrix = CX
    /\ InputAmplitudes = Ramp(2)
    /\ Output # GateResult(Gate(<<1, 0>>, CX), InputAmplitudes)

\* C10 as claimed: whatever the targets, the gate of a matrix and then the
\* gate of its inverse on the same targets return the input amplitudes.
C10_RoundTripAnyTargets ==
    pc = "undone" =>
      /\ calls[2].exc = NoExc
      /\ Amplitudes(heap, calls[2].ret) = Amplitudes(heap, input)

\* C10 amended: for targets no two of which are the same qubit, the gate of
\* an invertible matrix and then the gate of its inverse on the same targets
\* return exactly the input amplitudes.
C10_RoundTrip ==
    (pc = "undone" /\ DistinctTargets(gate)) =>
      /\ calls[2].exc = NoExc
      /\ Amplitudes(heap, calls[2].ret) = Amplitudes(heap, input)

\* C10 witness: the cyclic shift on targets (2, 0) moved the amplitudes, and
\* its inverse brought them back.
C10_Witness ==
    /\ pc = "undone"
    /\ gate.qubit_indices = <<2, 0>>
    /\ gate.matrix = Cycle
    /\ calls[2].what.matrix = CycleInv
    /\ Output # Amplitudes(heap, input)
    /\ Amplitudes(heap, calls[2].ret) = Amplitudes(heap, input)

\* C11: the gate of the 2x2 identity on an in-range target, and the gate of
\* the 4x4 identity on two distinct in-range targets, return a vector equal
\* to the input at every index.
C11_IdentityGate ==
    (/\ pc = "applied"
     /\ InRange(gate, InputQubits)
     /\ DistinctTargets(gate)
     /\ Len(gate.qubit_indices) \in {1, 2}
     /\ gate.matrix = Identity(2 ^ Len(gate.qubit_indices)))
      => /\ calls[1].exc = NoExc
         /\ \A idx \in 1..(2 ^ InputQubits) : Output[idx] = InputAmplitudes[idx]
         /\ Len(Output) = 2 ^ InputQubits

\* C11 witness: the 2x2 identity on the middle qubit of a three-qubit state
\* of distinct amplitudes returned a new vector of the same amplitudes.
C11_Witness ==
    /\ pc = "applied"
    /\ gate = Gate(<<1>>, I2)
    /\ InputAmplitudes = Signed(3)
    /\ calls[1].exc = NoExc
    /\ calls[1].ret # input
    /\ Output = Signed(3)

(***************************************************************************)
(* One engine call on a circuit: apply_circuit, and then a single-index    *)
(* write to the vector it returned.                                        *)
(***************************************************************************)
\* the gates a circuit of the model is made of; the last two have no
\* target and three targets
CircuitGates ==
    {Gate(<<t>>, m) : t \in 0..(MaxQubits - 1), m \in {X, Shear}}
      \cup {Gate(<<0, 1>>, CX), Gate(<<MaxQubits - 1, 0>>, CX),
            Gate(<<>>, Identity(1)), Gate(<<0, 1, 2>>, Identity(8))}

\* QuantumCircuit(gates) for every gate list of at most MaxGates gates
Circuits == UNION {[1..k -> CircuitGates] : k \in 0..MaxGates}

InitCircuit ==
    /\ \E n \in 0..MaxQubits : \E a \in {Ramp(n), Signed(n)} : heap = HeapWith(a)
    /\ pre = heap
    /\ gate = None
    /\ circuit \in Circuits
    /\ input = 1
    /\ calls = <<>>
    /\ pc = "ready"

\* output = emulator.apply_circuit(circuit, input)
ApplyCircuit ==
    /\ pc = "ready"
    /\ LET r == apply_circuit(heap, circuit, input)
       IN  /\ heap' = r.heap
           /\ calls' = Append(calls, Call("apply_circuit", circuit, input, r))
    /\ pre' = heap
    /\ pc' = "applied"
    /\ UNCHANGED <<gate, circuit, input>>

\* output[key] = value
SetItem ==
    /\ pc = "applied"
    /\ calls[1].exc = NoExc
    /\ \E key \in 0..(sv_length(heap, calls[1].ret) - 1) :
          heap' = setitem(heap, calls[1].ret, key, 99)
    /\ pre' = heap
    /\ pc' = "written"
    /\ UNCHANGED <<gate, circuit, input, calls>>

RECURSIVE Flatten(_)
\* the gate indices of the layers, layer after layer
Flatten(layers) ==
    IF layers = <<>> THEN <<>> ELSE Head(layers) \o Flatten(Tail(layers))

RECURSIVE SlotOf(_, _)
\* the number of the layer that holds position i of Flatten(layers)
SlotOf(layers, i) ==
    IF i <= Len(Head(layers)) THEN 1
    ELSE 1 + SlotOf(Tail(layers), i - Len(Head(layers)))

\* the orders in which the gates can be run layer by layer: the layers in
\* the order of the list, the gates of one layer in any order
LayerOrders(layers) ==
    LET flat == Flatten(layers)
    IN  {[i \in 1..Len(flat) |-> flat[q[i]]] :
           q \in {o \in Orders(Len(flat)) :
                    \A i \in 1..Len(flat) : SlotOf(layers, o[i]) = SlotOf(layers, i)}}

RECURSIVE RunInOrder(_, _, _, _, _)
\* apply_gate of the gates order[1], ..., order[k] (0-based gate indices),
\* each on the output of the one before, the first on s
RunInOrder(h, gates, order, k, s) ==
    IF k = 0 THEN Returned(h, s)
    ELSE LET p == RunInOrder(h, gates, order, k - 1, s)
         IN  IF p.exc # NoExc THEN p
             ELSE apply_gate(p.heap, gates[order[k] + 1], p.ret)

\* for layer in circuit.compression_list(): for i in some order of layer:
\* state = emulator.apply_gate(circuit.gates[i], state), starting from input
ApplyLayers ==
    /\ pc = "applied"
    /\ compression_list(circuit).exc = NoExc
    /\ \E order \in LayerOrders(compression_list(circuit).val) :
         LET r == RunInOrder(heap, circuit, order, Len(order), input)
         IN  /\ heap' = r.heap
             /\ calls' = Append(calls, Call("layers", order, input, r))
    /\ pc' = "layered"
    /\ UNCHANGED <<pre, gate, circuit, input>>

NextCircuit == ApplyCircuit \/ SetItem \/ ApplyLayers

SpecCircuit == InitCircuit /\ [][NextCircuit]_vars

(***************************************************************************)
(* Properties of apply_circuit, checked under SpecCircuit.                 *)
(***************************************************************************)
\* every gate of the list has at least one target
AllTargeted(gates) == \A i \in 1..Len(gates) : gates[i].qubit_indices # <<>>

\* (max target index across all gates) + 1, or 0 if empty: the least n
\* every target is below
WidthOf(gates) ==
    CHOOSE n \in 0..(MaxQubits + 2) :
        /\ \A i \in 1..Len(gates) : InRange(gates[i], n)
        /\ \A m \in 0..(n - 1) : \E i \in 1..Len(gates) : ~InRange(gates[i], m)

RECURSIVE GateFold(_, _, _, _)
\* apply_gate(g_k, ... apply_gate(g_2, apply_gate(g_1, s))) for the first k
\* gates of the list; the exception of the first gate that raises
GateFold(h, gates, k, s) ==
    IF k = 0 THEN Returned(h, s)
    ELSE LET p == GateFold(h, gates, k - 1, s)
         IN  IF p.exc # NoExc THEN p ELSE apply_gate(p.heap, gates[k], p.ret)

\* C4: when the circuit's qubit count (greatest target + 1, 0 for the empty
\* circuit; every gate having a target) differs from the state's,
\* apply_circuit raises the size-mismatch ValueError, returns nothing and
\* applies no gate: no vector is allocated, the heap is as before.
C4_SizeMismatchRaises ==
    (pc = "applied" /\ AllTargeted(circuit) /\ WidthOf(circuit) # InputQubits)
      => /\ calls[1].exc = ValueError(SizeMismatchMsg)
         /\ calls[1].ret = None
         /\ heap = pre

\* C4 witness: one gate on qubit 0 against a two-qubit state (the circuit
\* leaves the highest qubit idle).
C4_Witness ==
    /\ pc = "applied"
    /\ Len(circuit) = 1
    /\ circuit[1].qubit_indices = <<0>>
    /\ InputQubits = 2
    /\ calls[1].exc.msg = SizeMismatchMsg

\* C5: for a circuit of m gates and a state of matching size, apply_circuit
\* returns what apply_gate(g_m, ... apply_gate(g_1, s)) returns, or raises
\* what the first failing gate raises; on success exactly one vector per
\* gate was allocated.
C5_FoldInOrder ==
    (pc = "applied" /\ AllTargeted(circuit) /\ WidthOf(circuit) = InputQubits)
      => LET ref == GateFold(pre, circuit, Len(circuit), input)
         IN  /\ calls[1].exc = ref.exc
             /\ calls[1].exc = NoExc =>
                  /\ Output = Amplitudes(ref.heap, ref.ret)
                  /\ Len(heap.svs) = Len(pre.svs) + Len(circuit)

\* C5 witness: a circuit of two gates whose result differs from the result
\* of the same gates in the other order.
C5_Witness ==
    /\ pc = "applied"
    /\ Len(circuit) = 2
    /\ calls[1].exc = NoExc
    /\ LET other == GateFold(pre, <<circuit[2], circuit[1]>>, 2, input)
       IN  other.exc = NoExc /\ Output # Amplitudes(other.heap, other.ret)

\* the gates apply_gate refuses on a state every target is in range of:
\* those with neither one nor two targets
Unsupported(g) == Len(g.qubit_indices) \notin {1, 2}

\* C23: when a gate of a circuit of matching size fails (the first such gate
\* being at position k, after k - 1 gates that were applied), apply_circuit
\* raises the error of that gate, returns no vector, and the input
\* StateVector has the qubit count and the amplitudes it had before the call.
C23_NoPartialApplication ==
    (/\ pc = "applied" /\ AllTargeted(circuit) /\ WidthOf(circuit) = InputQubits
     /\ \E k \in 1..Len(circuit) : Unsupported(circuit[k]))
      => LET k == CHOOSE j \in 1..Len(circuit) :
                    /\ Unsupported(circuit[j])
                    /\ \A l \in 1..(j - 1) : ~Unsupported(circuit[l])
         IN  /\ calls[1].exc = UnsupportedNumberOfQubits(circuit[k])
             /\ calls[1].ret = None
             /\ heap.svs[input] = pre.svs[input]
             /\ Amplitudes(heap, input) = InputAmplitudes

\* C23 witness: a gate with 3 targets after a valid gate, on a 3-qubit
\* state: the valid gate allocated its output, then the call failed.
C23_Witness ==
    /\ pc = "applied"
    /\ Len(circuit) = 2
    /\ Len(circuit[1].qubit_indices) = 1
    /\ Len(circuit[2].qubit_indices) = 3
    /\ InputQubits = 3
    /\ calls[1].exc.type = "UnsupportedNumberOfQubits"
    /\ Len(heap.svs) = Len(pre.svs) + 1
    /\ Amplitudes(heap, input) = InputAmplitudes

\* C27: for a circuit and a state of matching size, running the gates layer
\* by layer (the layers of compression_list in their order, the gates of a
\* layer in any order) raises exactly when apply_circuit raises, and
\* otherwise ends in a vector of the same amplitudes as the one apply_circuit
\* returns.  Amplitudes and matrix entries are exact numbers here.
C27_LayersAsSteps ==
    (pc = "layered" /\ AllTargeted(circuit) /\ WidthOf(circuit) = InputQubits)
      => /\ Len(calls[2].what) = Len(circuit)
         /\ (calls[2].exc = NoExc) <=> (calls[1].exc = NoExc)
         /\ calls[2].exc.type = calls[1].exc.type
         /\ calls[1].exc = NoExc =>
              Amplitudes(heap, calls[2].ret) = Amplitudes(heap, calls[1].ret)

\* C27 witness: two gates on different qubits, neither leaving the state as
\* it is, run in the order opposite to the stored one.
C27_Witness ==
    /\ pc = "layered"
    /\ Len(circuit) = 2
    /\ calls[2].what = <<1, 0>>
    /\ calls[2].exc = NoExc
    /\ Amplitudes(heap, calls[2].ret) = Amplitudes(heap, calls[1].ret)
    /\ Amplitudes(heap, calls[2].ret) # InputAmplitudes
    /\ GateResult(circuit[1], InputAmplitudes) # InputAmplitudes
    /\ GateResult(circuit[2], InputAmplitudes) # InputAmplitudes

\* C6: a successful apply_circuit call (of any circuit, the empty one and
\* the circuits of a single gate included) returns a vector that did not
\* exist before the call, is not the input vector and does not share its
\* buffer; a later single-index write to it leaves the input as it was.
C6_FreshOutput ==
    /\ (pc = "applied" /\ calls[1].exc = NoExc) =>
         /\ calls[1].ret \notin 1..Len(pre.svs)
         /\ calls[1].ret # input
         /\ heap.svs[calls[1].ret].vector # heap.svs[input].vector
    /\ pc = "written" => Amplitudes(heap, input) = Amplitudes(pre, input)

(***************************************************************************)
(* A circuit built by appends; after each step the caller may read its     *)
(* num_qubits, its depth and its layers.                                   *)
(***************************************************************************)
\* the gates a built circuit is made of: one and two targets, in both
\* orders, one qubit twice, three targets, no target
LayerGates ==
    {Gate(<<t>>, I2) : t \in 0..(MaxQubits - 1)}
      \cup {Gate(<<t, t + 1>>, Identity(4)) : t \in 0..(MaxQubits - 2)}
      \cup {Gate(<<MaxQubits - 1, 0>>, Identity(4)),
            Gate(<<0, 0>>, Identity(4)),
            Gate(<<0, 1, 2>>, Identity(8)),
            Gate(<<>>, Identity(1))}

\* circuit = QuantumCircuit(gates) for a list of at most MaxLen gates
InitLayers ==
    /\ heap = EmptyHeap
    /\ pre = EmptyHeap
    /\ gate = None
    /\ circuit \in UNION {[1..k -> LayerGates] : k \in 0..MaxLen}
    /\ input = None
    /\ calls = <<>>
    /\ pc = "built"

\* circuit.append(g)
AppendGate ==
    /\ Len(circuit) < MaxLen
    /\ \E g \in LayerGates : circuit' = append(circuit, g)
    /\ calls' = <<>>
    /\ pc' = "built"
    /\ UNCHANGED <<heap, pre, gate, input>>

\* the three reads  circuit.num_qubits, circuit.depth, circuit.compression_list()
ReadCircuit ==
    /\ pc = "built"
    /\ calls' = <<[op |-> "num_qubits", what |-> circuit, arg |-> None,
                   ret |-> circuit_num_qubits(circuit).val,
                   exc |-> circuit_num_qubits(circuit).exc],
                  [op |-> "depth", what |-> circuit, arg |-> None,
                   ret |-> depth(circuit).val, exc |-> depth(circuit).exc],
                  [op |-> "compression_list", what |-> circuit, arg |-> None,
                   ret |-> compression_list(circuit).val,
                   exc |-> compression_list(circuit).exc]>>
    /\ pc' = "read"
    /\ UNCHANGED <<heap, pre, gate, circuit, input>>

NextLayers == AppendGate \/ ReadCircuit

SpecLayers == InitLayers /\ [][NextLayers]_vars

(***************************************************************************)
(* Properties of the layering, checked under SpecLayers.                   *)
(***************************************************************************)
\* the three reads of the last ReadCircuit
ReadNumQubits == calls[1]

ReadDepth == calls[2]

ReadLayers == calls[3]

\* gates number i and k (0-based) of the circuit have a target in common
Shares(i, k) ==
    \E p \in 1..Len(circuit[i + 1].qubit_indices) :
      \E q \in 1..Len(circuit[k + 1].qubit_indices) :
        circuit[i + 1].qubit_indices[p] = circuit[k + 1].qubit_indices[q]

\* the places <<layer, position>> of the layers at which gate index i stands
PlacesOf(layers, i) ==
    {lp \in UNION {{<<l, p>> : p \in 1..Len(layers[l])} : l \in 1..Len(layers)} :
       layers[lp[1]][lp[2]] = i}

\* the (0-based) index of the layer gate index i stands in; -1 if in none
LayerIndexOf(layers, i) ==
    IF PlacesOf(layers, i) = {} THEN 0 - 1
    ELSE (CHOOSE lp \in PlacesOf(layers, i) : TRUE)[1] - 1

\* C12: for a non-empty circuit (every gate having a target) the layers are
\* a partition of the gate indices: each of 0..len-1 stands at exactly one
\* place of exactly one layer, and nothing else stands in a layer.
C12_LayersPartition ==
    (pc = "read" /\ circuit # <<>> /\ AllTargeted(circuit))
      => /\ ReadLayers.exc = NoExc
         /\ \A i \in 0..(Len(circuit) - 1) :
              Cardinality(PlacesOf(ReadLayers.ret, i)) = 1
         /\ \A l \in 1..Len(ReadLayers.ret) : \A p \in 1..Len(ReadLayers.ret[l]) :
              ReadLayers.ret[l][p] \in 0..(Len(circuit) - 1)

\* C12 witness: gates on [0], [0], [1]: the third gate joins the first layer
\* after the second layer was opened.
C12_Witness ==
    /\ pc = "read"
    /\ Len(circuit) = 3
    /\ circuit[1].qubit_indices = <<0>>
    /\ circuit[2].qubit_indices = <<0>>
    /\ circuit[3].qubit_indices = <<1>>
    /\ ReadLayers.ret = <<(<<0, 2>>), (<<1>>)>>

\* C13: within a layer no two different gates have a target in common.
C13_NoSharedQubitInLayer ==
    (pc = "read" /\ AllTargeted(circuit))
      => /\ ReadLayers.exc = NoExc
         /\ \A l \in 1..Len(ReadLayers.ret) :
              \A p \in 1..Len(ReadLayers.ret[l]) : \A q \in 1..Len(ReadLayers.ret[l]) :
                p # q => ~Shares(ReadLayers.ret[l][p], ReadLayers.ret[l][q])

\* C13 witness: a layer of two gates, the first of them on two qubits, and a
\* later gate on its second qubit in the next layer.
C13_Witness ==
    /\ pc = "read"
    /\ Len(circuit) = 3
    /\ circuit[1].qubit_indices = <<0, 1>>
    /\ circuit[2].qubit_indices = <<2>>
    /\ circuit[3].qubit_indices = <<1>>
    /\ ReadLayers.ret = <<(<<0, 1>>), (<<2>>)>>

\* C14: for gate positions i < k whose gates have a target in common, the
\* layer of gate k is strictly after the layer of gate i; gates on [0], [1],
\* [0] give the two layers {gate 0, gate 1} and {gate 2}.
C14_PerQubitOrder ==
    (pc = "read" /\ AllTargeted(circuit))
      => /\ ReadLayers.exc = NoExc
         /\ \A i \in 0..(Len(circuit) - 1) : \A k \in 0..(Len(circuit) - 1) :
              (i < k /\ Shares(i, k))
                => /\ LayerIndexOf(ReadLayers.ret, i) >= 0
                   /\ LayerIndexOf(ReadLayers.ret, k) > LayerIndexOf(ReadLayers.ret, i)
         /\ (/\ Len(circuit) = 3
             /\ circuit[1].qubit_indices = <<0>>
             /\ circuit[2].qubit_indices = <<1>>
             /\ circuit[3].qubit_indices = <<0>>)
              => ReadLayers.ret = <<(<<0, 1>>), (<<2>>)>>

\* C14 witness: a two-qubit gate that waits for the later of its two qubits:
\* gates on [0], [0], [0, 1].
C14_Witness ==
    /\ pc = "read"
    /\ Len(circuit) = 3
    /\ circuit[1].qubit_indices = <<0>>
    /\ circuit[2].qubit_indices = <<0>>
    /\ circuit[3].qubit_indices = <<0, 1>>
    /\ LayerIndexOf(ReadLayers.ret, 2) = 2

\* an assignment a of layer indices to the gates keeps the per-qubit order
\* and puts no two gates with a common target in one layer
ValidAssignment(a) ==
    \A i \in 0..(Len(circuit) - 1) : \A k \in 0..(Len(circuit) - 1) :
      (i # k /\ Shares(i, k))
        => /\ a[i + 1] # a[k + 1]
           /\ i < k => a[k + 1] > a[i + 1]

RECURSIVE ChainTo(_)
\* the number of gates of the longest chain that ends in gate k, each gate
\* of the chain sharing a qubit with the one before it
ChainTo(k) ==
    LET before == {i \in 0..(k - 1) : Shares(i, k)}
    IN  IF before = {} THEN 1
        ELSE 1 + (CHOOSE m \in {ChainTo(i) : i \in before} :
                    \A i \in before : ChainTo(i) <= m)

\* C15: the layering is optimal.  Among all assignments of layer indices
\* that keep the per-qubit order and share no qubit within a layer, none
\* uses fewer layers than the depth read and none puts a gate before the
\* layer the code puts it in; the code's own layering is such an
\* assignment, and each gate's layer is the length of the longest chain of
\* qubit-sharing gates that ends in it.
C15_GreedyOptimal ==
    (pc = "read" /\ AllTargeted(circuit))
      => LET n == Len(circuit)
             mine == [k \in 1..n |-> LayerIndexOf(ReadLayers.ret, k - 1)]
         IN  /\ ReadLayers.exc = NoExc /\ ReadDepth.exc = NoExc
             /\ ReadDepth.ret = Len(ReadLayers.ret)
             /\ ValidAssignment(mine)
             /\ ReadDepth.ret = Cardinality({mine[k] : k \in 1..n})
             /\ \A k \in 1..n : mine[k] = ChainTo(k - 1) - 1
             /\ \A a \in [1..n -> 0..(n - 1)] :
                  ValidAssignment(a)
                    => /\ Cardinality({a[k] : k \in 1..n}) >= ReadDepth.ret
                       /\ \A k \in 1..n : a[k] >= mine[k]

\* C15 witness: three gates of depth two, on [0, 1], [2], [1]: fewer layers
\* than gates and more than one.
C15_Witness ==
    /\ pc = "read"
    /\ Len(circuit) = 3
    /\ circuit[1].qubit_indices = <<0, 1>>
    /\ circuit[2].qubit_indices = <<2>>
    /\ circuit[3].qubit_indices = <<1>>
    /\ ReadDepth.ret = 2

\* C16: an append never lowers the depth and raises it by at most one (for
\* circuits every gate of which has a target, before and after).
C16_DepthMonotone ==
    [][(circuit' # circuit /\ AllTargeted(circuit'))
         => /\ depth(circuit).exc = NoExc
            /\ depth(circuit').exc = NoExc
            /\ depth(circuit').val >= depth(circuit).val
            /\ depth(circuit').val <= depth(circuit).val + 1]_vars

\* C16 witness: a circuit of three gates the last append to which raised the
\* depth from one to two.
C16_Witness ==
    /\ pc = "read"
    /\ Len(circuit) = 3
    /\ AllTargeted(circuit)
    /\ ReadDepth.ret = 2
    /\ depth(SubSeq(circuit, 1, 2)).val = 1

\* no two different gates of the circuit have a target in common
PairwiseDisjoint ==
    \A i \in 0..(Len(circuit) - 1) : \A k \in 0..(Len(circuit) - 1) :
      i # k => ~Shares(i, k)

\* C17 as claimed: any circuit whose gates pairwise share no qubit has
\* depth 1.
C17_DisjointDepthOneAnyCircuit ==
    (pc = "read" /\ AllTargeted(circuit) /\ PairwiseDisjoint)
      => ReadDepth.exc = NoExc /\ ReadDepth.ret = 1

\* C17 amended: any non-empty circuit whose gates pairwise share no qubit
\* has depth 1 (the empty circuit has depth 0).
C17_DisjointDepthOne ==
    /\ (pc = "read" /\ AllTargeted(circuit) /\ PairwiseDisjoint /\ circuit # <<>>)
         => ReadDepth.exc = NoExc /\ ReadDepth.ret = 1
    /\ (pc = "read" /\ circuit = <<>>)
         => ReadDepth.exc = NoExc /\ ReadDepth.ret = 0

\* C17 witness: gates on [0] and [1, 2] read at depth 1.
C17_Witness ==
    /\ pc = "read"
    /\ Len(circuit) = 2
    /\ circuit[1].qubit_indices = <<0>>
    /\ circuit[2].qubit_indices = <<1, 2>>
    /\ ReadDepth.ret = 1

\* C18: whatever the initial list and the appends, num_qubits read from the
\* circuit (every gate having a target) is the greatest target index of
\* all its gates plus one, 0 without gates: a function of the set of
\* targets, not of the order of the gates.
C18_NumQubitsDerived ==
    (pc = "read" /\ AllTargeted(circuit))
      => /\ ReadNumQubits.exc = NoExc
         /\ ReadNumQubits.ret = WidthOf(circuit)
         /\ circuit = <<>> => ReadNumQubits.ret = 0

\* C18 witness: the gate with the greatest target is not the last one: gates
\* on [2], [0].
C18_Witness ==
    /\ pc = "read"
    /\ Len(circuit) = 2
    /\ circuit[1].qubit_indices = <<2>>
    /\ circuit[2].qubit_indices = <<0>>
    /\ ReadNumQubits.ret = 3

(***************************************************************************)
(* The construction of one gate.                                           *)
(***************************************************************************)
\* the array of r rows and c columns with ones on its diagonal
Eye(r, c) == [i \in 1..r |-> [j \in 1..c |-> IF i = j THEN 1 ELSE 0]]

\* the target lists handed to Gate: k targets in ascending and in
\* descending order, and one qubit twice
TargetLists ==
    {[i \in 1..k |-> i - 1] : k \in 0..MaxQubits}
      \cup {[i \in 1..k |-> k - i] : k \in 0..MaxQubits}
      \cup {<<0, 0>>}

\* the arguments of the call: a target list and an array of any shape up to
\* the size a gate on MaxQubits qubits needs
InitGate ==
    /\ heap = EmptyHeap
    /\ pre = EmptyHeap
    /\ gate = None
    /\ circuit = <<>>
    /\ \E t \in TargetLists : \E r \in 1..Pow2(MaxQubits) : \E c \in 1..Pow2(MaxQubits) :
         input = <<t, Eye(r, c)>>
    /\ calls = <<>>
    /\ pc = "ready"

\* gate = Gate(qubit_indices, matrix)
ConstructGate ==
    /\ pc = "ready"
    /\ LET r == Gate_init(input[1], input[2])
       IN  /\ gate' = r.val
           /\ calls' = <<[op |-> "Gate", what |-> None, arg |-> input,
                          ret |-> r.val, exc |-> r.exc]>>
    /\ pc' = "constructed"
    /\ UNCHANGED <<heap, pre, circuit, input>>

NextGate == ConstructGate

SpecGate == InitGate /\ [][NextGate]_vars

\* C19: Gate(qubit_indices, matrix) succeeds exactly when every row of the
\* matrix is as long as the matrix has rows and the number of rows is
\* 2 ^ (number of targets); otherwise it raises ValueError and no Gate
\* object is produced; on success the object holds the targets and the
\* matrix it was given.
C19_GateConstruction ==
    pc = "constructed" =>
      LET targets == input[1]
          matrix == input[2]
          square == \A r \in 1..Len(matrix) : Len(matrix[r]) = Len(matrix)
          sized == Len(matrix) = 2 ^ Len(targets)
      IN  /\ (calls[1].exc = NoExc) <=> (square /\ sized)
          /\ calls[1].exc # NoExc =>
               /\ calls[1].exc.type = "ValueError"
               /\ calls[1].ret = None
               /\ gate = None
          /\ calls[1].exc = NoExc =>
               /\ gate.qubit_indices = targets
               /\ gate.matrix = matrix

\* C19 witness: a 3x3 matrix for a gate on two targets is refused.
C19_Witness ==
    /\ pc = "constructed"
    /\ input = <<(<<0, 1>>), Eye(3, 3)>>
    /\ calls[1].exc.type = "ValueError"
    /\ gate = None

(***************************************************************************)
(* One StateVector: its construction, and then calls of from_list,         *)
(* from_num_qubits, the vector setter and single-index writes.             *)
(***************************************************************************)
\* the lists the caller passes: every length from 0 to 2 ** MaxQubits
CallerLists == {[i \in 1..n |-> i] : n \in 0..Pow2(MaxQubits)}

\* the qubit counts the caller passes
CallerCounts == (0 - 1)..MaxQubits

InitVector ==
    /\ heap = EmptyHeap
    /\ pre = EmptyHeap
    /\ gate = None
    /\ circuit = <<>>
    /\ input = None
    /\ calls = <<>>
    /\ pc = "ready"

\* the outcome of a call as the next state: the call is added to the log,
\* what being the kind of its argument ("list", "int" or "str")
Logged(op, what, arg, r, next) ==
    /\ heap' = r.heap
    /\ pre' = heap
    /\ calls' = Append(calls, [op |-> op, what |-> what, arg |-> arg,
                               ret |-> r.ret, exc |-> r.exc])
    /\ pc' = next
    /\ UNCHANGED <<gate, circuit>>

\* sv = StateVector(initializer)
ConstructVector ==
    /\ pc = "ready"
    /\ \/ \E a \in CallerLists :
            LET h1 == AllocList(heap, a)
                r == StateVector_init(h1, [kind |-> "list", ref |-> Len(h1.lists)])
            IN  /\ Logged("StateVector", "list", a, r, IF r.exc = NoExc THEN "live" ELSE "failed")
                /\ input' = r.ret
       \/ \E n \in CallerCounts :
            LET r == StateVector_init(heap, [kind |-> "int", val |-> n])
            IN  /\ Logged("StateVector", "int", n, r, IF r.exc = NoExc THEN "live" ELSE "failed")
                /\ input' = r.ret
       \/ LET r == StateVector_init(heap, [kind |-> "str"])
          IN  /\ Logged("StateVector", "str", "x", r, "failed")
              /\ input' = r.ret

\* sv.from_list(a)
FromList ==
    /\ pc = "live" /\ Len(calls) < MaxOps
    /\ \E a \in CallerLists :
         LET h1 == AllocList(heap, a)
         IN  Logged("from_list", "list", a, from_list(h1, input, Len(h1.lists)), "live")
    /\ UNCHANGED input

\* sv.from_num_qubits(n)
FromNumQubits ==
    /\ pc = "live" /\ Len(calls) < MaxOps
    /\ \E n \in CallerCounts :
         Logged("from_num_qubits", "int", n, from_num_qubits(heap, input, n), "live")
    /\ UNCHANGED input

\* sv.vector = a
SetVector ==
    /\ pc = "live" /\ Len(calls) < MaxOps
    /\ \E a \in CallerLists :
         LET h1 == AllocList(heap, a)
         IN  Logged("vector", "list", a, vector_setter(h1, input, Len(h1.lists)), "live")
    /\ UNCHANGED input

\* sv[key] = 99 for the first index, the last one (-1) and one past the end
WriteItem ==
    /\ pc = "live" /\ Len(calls) < MaxOps
    /\ \E key \in {0, 0 - 1, Len(Amplitudes(heap, input))} :
         Logged("setitem", "int", key, setitem_checked(heap, input, key, 99), "live")
    /\ UNCHANGED input

NextVector == ConstructVector \/ FromList \/ FromNumQubits \/ SetVector \/ WriteItem

SpecVector == InitVector /\ [][NextVector]_vars

\* C20: every StateVector that exists has a buffer whose length is a power
\* of two and at least 2, num_qubits = log2 of that length, and length
\* (2 ** num_qubits) equal to the length of the buffer.
C20_VectorShape ==
    \A sv \in 1..Len(heap.svs) :
      LET len == Len(Amplitudes(heap, sv))
      IN  /\ len >= 2
          /\ \E n \in 0..(MaxQubits + 1) : len = 2 ^ n
          /\ 2 ^ heap.svs[sv].num_qubits = len
          /\ sv_length(heap, sv) = len

\* the last call of the log
LastCall == calls[Len(calls)]

\* C21: StateVector(n) and sv.from_num_qubits(n) raise ValueError for every
\* n < 1, leaving every object as it was, and for every n >= 1 give the
\* object num_qubits = n and a buffer of length 2 ** n that holds 1 at
\* index 0 and 0 at every other index.
C21_FromQubitCount ==
    (calls # <<>> /\ LastCall.op \in {"StateVector", "from_num_qubits"}
                 /\ LastCall.what = "int")
      => IF LastCall.arg < 1
         THEN /\ LastCall.exc.type = "ValueError"
              /\ LastCall.ret = None
              /\ heap = pre
         ELSE /\ LastCall.exc = NoExc
              /\ heap.svs[LastCall.ret].num_qubits = LastCall.arg
              /\ Len(Amplitudes(heap, LastCall.ret)) = 2 ^ LastCall.arg
              /\ \A i \in 1..(2 ^ LastCall.arg) :
                    Amplitudes(heap, LastCall.ret)[i] = (IF i = 1 THEN 1 ELSE 0)

\* C21 witness: StateVector(2) gave [1, 0, 0, 0], and from_num_qubits(0) on
\* it was then refused and left it as it was.
C21_Witness ==
    /\ Len(calls) = 2
    /\ calls[1].op = "StateVector" /\ calls[1].what = "int" /\ calls[1].arg = 2
    /\ calls[2].op = "from_num_qubits" /\ calls[2].arg = 0
    /\ calls[2].exc.type = "ValueError"
    /\ Amplitudes(heap, input) = <<1, 0, 0, 0>>

(***************************************************************************)
(* Several StateVectors and the lists their caller holds: constructions,   *)
(* the calls that assign or write amplitudes, apply_gate and apply_circuit *)
(* on the vectors, and the caller's own writes to its lists.               *)
(***************************************************************************)
\* the lists the caller builds: lengths 2 and 4, and 3 (not a power of two)
FrameLists == {[i \in 1..n |-> i] : n \in 2..4}

\* the gates and the circuits the caller applies
FrameGates == {Gate(<<0>>, X), Gate(<<1, 0>>, CX)}

FrameCircuits == {<<Gate(<<0>>, X)>>, <<Gate(<<0>>, X), Gate(<<0, 1>>, CX)>>}

\* input holds the references of the caller's lists, pc counts the calls made
InitFrame ==
    /\ heap = EmptyHeap
    /\ pre = EmptyHeap
    /\ gate = None
    /\ circuit = <<>>
    /\ input = <<>>
    /\ calls = <<>>
    /\ pc = 0

\* the outcome of a call as the next state; what is the StateVector the
\* call was made on (None for a constructor or a write to a list)
FrameCall(op, what, arg, r) ==
    /\ heap' = r.heap
    /\ pre' = heap
    /\ calls' = <<[op |-> op, what |-> what, arg |-> arg, ret |-> r.ret, exc |-> r.exc]>>
    /\ pc' = pc + 1
    /\ UNCHANGED <<gate, circuit>>

\* a = [...]; StateVector(a)
FrameNewFromList ==
    /\ pc < MaxOps /\ Len(heap.svs) < MaxVectors
    /\ \E a \in FrameLists :
         LET h1 == AllocList(heap, a)
         IN  /\ FrameCall("StateVector", None, Len(h1.lists),
                          StateVector_init(h1, [kind |-> "list", ref |-> Len(h1.lists)]))
             /\ input' = Append(input, Len(h1.lists))

\* StateVector(a) for a list a the caller already holds
FrameNewFromHeld ==
    /\ pc < MaxOps /\ Len(heap.svs) < MaxVectors
    /\ \E k \in 1..Len(input) :
         FrameCall("StateVector", None, input[k],
                   StateVector_init(heap, [kind |-> "list", ref |-> input[k]]))
    /\ UNCHANGED input

\* StateVector(n)
FrameNewFromCount ==
    /\ pc < MaxOps /\ Len(heap.svs) < MaxVectors
    /\ \E n \in 0..1 :
         FrameCall("StateVector", None, n, StateVector_init(heap, [kind |-> "int", val |-> n]))
    /\ UNCHANGED input

\* a = [...]; sv.from_list(a)
FrameFromList ==
    /\ pc < MaxOps
    /\ \E sv \in 1..Len(heap.svs) : \E a \in FrameLists :
         LET h1 == AllocList(heap, a)
         IN  /\ FrameCall("from_list", sv, Len(h1.lists), from_list(h1, sv, Len(h1.lists)))
             /\ input' = Append(input, Len(h1.lists))

\* sv.from_num_qubits(n)
FrameFromNumQubits ==
    /\ pc < MaxOps
    /\ \E sv \in 1..Len(heap.svs) : \E n \in 0..1 :
         FrameCall("from_num_qubits", sv, n, from_num_qubits(heap, sv, n))
    /\ UNCHANGED input

\* sv.vector = a for a list a the caller holds
FrameSetVector ==
    /\ pc < MaxOps
    /\ \E sv \in 1..Len(heap.svs) : \E k \in 1..Len(input) :
         FrameCall("vector", sv, input[k], vector_setter(heap, sv, input[k]))
    /\ UNCHANGED input

\* sv[key] = 99 for the first index and for one past the end
FrameSetItem ==
    /\ pc < MaxOps
    /\ \E sv \in 1..Len(heap.svs) : \E key \in {0, Len(Amplitudes(heap, sv))} :
         FrameCall("setitem", sv, key, setitem_checked(heap, sv, key, 99))
    /\ UNCHANGED input

\* a[0] = 77 for a list a the caller holds
FrameWriteList ==
    /\ pc < MaxOps
    /\ \E k \in 1..Len(input) :
         FrameCall("list_setitem", None, input[k],
                   Returned([heap EXCEPT !.lists[input[k]][1] = 77], None))
    /\ UNCHANGED input

\* MyEmulator().apply_gate(g, sv)
FrameApplyGate ==
    /\ pc < MaxOps
    /\ \E sv \in 1..Len(heap.svs) : \E g \in FrameGates :
         FrameCall("apply_gate", sv, g, apply_gate(heap, g, sv))
    /\ UNCHANGED input

\* MyEmulator().apply_circuit(QuantumCircuit(gates), sv)
FrameApplyCircuit ==
    /\ pc < MaxOps
    /\ \E sv \in 1..Len(heap.svs) : \E gates \in FrameCircuits :
         FrameCall("apply_circuit", sv, gates, apply_circuit(heap, gates, sv))
    /\ UNCHANGED input

NextFrame ==
    \/ FrameNewFromList \/ FrameNewFromHeld \/ FrameNewFromCount
    \/ FrameFromList \/ FrameFromNumQubits \/ FrameSetVector \/ FrameSetItem
    \/ FrameWriteList \/ FrameApplyGate \/ FrameApplyCircuit

SpecFrame == InitFrame /\ [][NextFrame]_vars

\* C22: the amplitudes of a StateVector differ from what they were before
\* the last call only if that call was the vector setter, from_list,
\* from_num_qubits or a single-index write on that very StateVector: not
\* after apply_gate or apply_circuit, a call on another StateVector or a
\* write to a list of the caller.
C22_OnlyOwnWrites ==
    \A sv \in 1..Len(pre.svs) :
      Amplitudes(heap, sv) # Amplitudes(pre, sv)
        => /\ calls # <<>>
           /\ LastCall.op \in {"vector", "from_list", "from_num_qubits", "setitem"}
           /\ LastCall.what = sv

(***************************************************************************)
(* The bit primitives of MyEmulator on their own: __replace_bit__ called   *)
(* once and once more on its result, __replace_bits__ called on the lists  *)
(* and then on the same (position, value) pairs in another order.          *)
(***************************************************************************)
BitPositions == 0..MaxBit

\* the lists of at most MaxPairs elements of S
ListsOf(S) == UNION {[1..k -> S] : k \in 0..MaxPairs}

\* input holds the arguments num, locs and vals
InitBits ==
    /\ heap = EmptyHeap
    /\ pre = EmptyHeap
    /\ gate = None
    /\ circuit = <<>>
    /\ \E num \in 0..(Pow2(MaxBit + 1) - 1) : \E locs \in ListsOf(BitPositions) :
         \E vals \in ListsOf({0, 1}) :
           input = [num |-> num, locs |-> locs, vals |-> vals]
    /\ calls = <<>>
    /\ pc = "ready"

\* emulator.__replace_bit__(num, loc, val)
ReplaceBit ==
    /\ pc = "ready"
    /\ Len(input.locs) = 1 /\ Len(input.vals) = 1
    /\ calls' = <<[op |-> "replace_bit", arg |-> <<1>>, exc |-> NoExc,
                   ret |-> replace_bit(input.num, input.locs[1], input.vals[1])]>>
    /\ pc' = "bit"
    /\ UNCHANGED <<heap, pre, gate, circuit, input>>

\* emulator.__replace_bit__(result, loc, val) on the result of the first call
ReplaceBitAgain ==
    /\ pc = "bit"
    /\ calls' = Append(calls,
                       [op |-> "replace_bit", arg |-> <<1>>, exc |-> NoExc,
                        ret |-> replace_bit(calls[1].ret, input.locs[1], input.vals[1])])
    /\ pc' = "bit_again"
    /\ UNCHANGED <<heap, pre, gate, circuit, input>>

\* emulator.__replace_bits__(num, locs, vals)
ReplaceBits ==
    /\ pc = "ready"
    /\ LET r == replace_bits(input.num, input.locs, input.vals)
       IN  calls' = <<[op |-> "replace_bits", arg |-> [i \in 1..Len(input.locs) |-> i],
                       exc |-> r.exc, ret |-> r.val]>>
    /\ pc' = "bits"
    /\ UNCHANGED <<heap, pre, gate, circuit, input>>

\* emulator.__replace_bits__(num, locs, vals) with the pairs in the order p
ReplaceBitsPermuted ==
    /\ pc = "bits"
    /\ Len(input.locs) = Len(input.vals)
    /\ \E p \in Orders(Len(input.locs)) :
         LET r == replace_bits(input.num,
                               [i \in 1..Len(p) |-> input.locs[p[i]]],
                               [i \in 1..Len(p) |-> input.vals[p[i]]])
         IN  calls' = Append(calls, [op |-> "replace_bits", arg |-> p,
                                     exc |-> r.exc, ret |-> r.val])
    /\ pc' = "permuted"
    /\ UNCHANGED <<heap, pre, gate, circuit, input>>

NextBits == ReplaceBit \/ ReplaceBitAgain \/ ReplaceBits \/ ReplaceBitsPermuted

SpecBits == InitBits /\ [][NextBits]_vars

\* C24: __replace_bit__(num, loc, val) for num >= 0, loc >= 0 and val in
\* {0, 1} is a non-negative number whose bit loc is val and whose every other
\* bit is that of num; the same replacement on the result gives the result.
C24_ReplaceBit ==
    (pc \in {"bit", "bit_again"})
      => LET num == input.num
             loc == input.locs[1]
             val == input.vals[1]
             result == calls[1].ret
         IN  /\ result >= 0
             /\ \A k \in BitPositions :
                  RefBit(result, k) = (IF k = loc THEN val ELSE RefBit(num, k))
             /\ result \div (2 ^ (MaxBit + 1)) = num \div (2 ^ (MaxBit + 1))
             /\ pc = "bit_again" => calls[2].ret = result

\* C24 witness: bit 1 of 0b101 set gives 0b111, and set once more still
\* 0b111.
C24_Witness ==
    /\ pc = "bit_again"
    /\ input.num = 5 /\ input.locs = <<1>> /\ input.vals = <<1>>
    /\ calls[1].ret = 7 /\ calls[2].ret = 7

RECURSIVE InListOrder(_, _, _, _)
\* the single-bit replacements of the first k pairs, made one after another
InListOrder(num, locs, vals, k) ==
    IF k = 0 THEN num
    ELSE replace_bit(InListOrder(num, locs, vals, k - 1), locs[k], vals[k])

\* C25: __replace_bits__(num, locs, vals) raises AssertionError and returns
\* nothing when the lists differ in length (either one the longer);
\* otherwise it returns the single-bit replacements made in list order,
\* which is num for empty lists, and for pairwise distinct positions the
\* same number for every order of the (position, value) pairs.
C25_ReplaceBits ==
    (pc \in {"bits", "permuted"})
      => LET num == input.num
             locs == input.locs
             vals == input.vals
         IN  IF Len(locs) # Len(vals)
             THEN /\ calls[1].exc.type = "AssertionError"
                  /\ calls[1].ret = None
             ELSE /\ calls[1].exc = NoExc
                  /\ calls[1].ret = InListOrder(num, locs, vals, Len(locs))
                  /\ locs = <<>> => calls[1].ret = num
                  /\ (/\ pc = "permuted"
                      /\ \A i \in 1..Len(locs) : \A j \in 1..Len(locs) :
                           locs[i] = locs[j] => i = j)
                       => calls[2].exc = NoExc /\ calls[2].ret = calls[1].ret

\* C25 witness: bits 0 and 1 of 0b110 replaced by 1 and 0, and then the
\* same pairs in the other order: 0b101 both times.
C25_Witness ==
    /\ pc = "permuted"
    /\ input.num = 6 /\ input.locs = <<0, 1>> /\ input.vals = <<1, 0>>
    /\ calls[2].arg = <<2, 1>>
    /\ calls[1].ret = 5 /\ calls[2].ret = 5

(***************************************************************************)
(* The engine of src/emulator.py: one apply_gate call with its inplace     *)
(* argument.                                                               *)
(***************************************************************************)
TopGates ==
    {Gate(<<t>>, m) : t \in 0..(MaxQubits - 1), m \in {X, Shear}}
      \cup {Gate(<<0, 1>>, CX), Gate(<<0, 1, 2>>, Identity(8))}

InitTop ==
    /\ \E n \in 1..MaxQubits : \E a \in AmplitudeLists(n) : heap = HeapWith(a)
    /\ pre = heap
    /\ gate \in TopGates
    /\ circuit = <<>>
    /\ input = 1
    /\ calls = <<>>
    /\ pc = "ready"

\* output = emulator.apply_gate(gate, input, inplace); the log holds the
\* value of inplace as the argument of the call
ApplyGateTop ==
    /\ pc = "ready"
    /\ \E inplace \in BOOLEAN :
         LET r == apply_gate_top(heap, gate, input, inplace)
         IN  /\ heap' = r.heap
             /\ calls' = <<Call("apply_gate", gate, inplace, r)>>
    /\ pre' = heap
    /\ pc' = "applied"
    /\ UNCHANGED <<gate, circuit, input>>

NextTop == ApplyGateTop

SpecTop == InitTop /\ [][NextTop]_vars

\* C26: a successful apply_gate call of src/emulator.py returns a vector
\* holding the gate's result; after it the input vector holds that result
\* when inplace is True, and what it held before when inplace is False.
C26_InplaceDecides ==
    (pc = "applied" /\ calls[1].exc = NoExc)
      => /\ Output = GateResult(gate, InputAmplitudes)
         /\ Amplitudes(heap, input) =
              (IF calls[1].arg THEN GateResult(gate, InputAmplitudes) ELSE InputAmplitudes)

(***************************************************************************)
(* QuantumCircuit objects and the gate lists of their caller:              *)
(* constructions, append, and concat with its loop followed iteration by   *)
(* iteration.                                                              *)
(***************************************************************************)
\* the gates and the gate lists the caller builds
ObjectGates == {Gate(<<0>>, X), Gate(<<1>>, X)}

ObjectLists == {<<>>, <<Gate(<<0>>, X)>>, <<Gate(<<1>>, X)>>}

\* input holds the references of the caller's lists; gate holds the frame
\* of the concat call in progress
InitObjects ==
    /\ heap = EmptyCircuitHeap
    /\ pre = EmptyCircuitHeap
    /\ gate = None
    /\ circuit = <<>>
    /\ input = <<>>
    /\ calls = <<>>
    /\ pc = "idle"

\* a call is added to the log; what is the circuit it was made on
ObjectCall(op, what, arg, exc) ==
    /\ calls' = Append(calls, [op |-> op, what |-> what, arg |-> arg, exc |-> exc])
    /\ pre' = heap
    /\ UNCHANGED circuit

\* QuantumCircuit()
NewCircuit ==
    /\ pc = "idle" /\ Len(calls) < MaxOps /\ Len(heap.circuits) < MaxCircuits
    /\ heap' = QuantumCircuit_init(heap, None).heap
    /\ ObjectCall("QuantumCircuit", None, None, NoExc)
    /\ UNCHANGED <<gate, input, pc>>

\* a = [...]; QuantumCircuit(a)
NewCircuitFromList ==
    /\ pc = "idle" /\ Len(calls) < MaxOps /\ Len(heap.circuits) < MaxCircuits
    /\ \E a \in ObjectLists :
         LET h1 == [heap EXCEPT !.lists = Append(@, a)]
         IN  /\ heap' = QuantumCircuit_init(h1, Len(h1.lists)).heap
             /\ input' = Append(input, Len(h1.lists))
             /\ ObjectCall("QuantumCircuit", None, Len(h1.lists), NoExc)
    /\ UNCHANGED <<gate, pc>>

\* QuantumCircuit(a) for a list a the caller already holds
NewCircuitFromHeld ==
    /\ pc = "idle" /\ Len(calls) < MaxOps /\ Len(heap.circuits) < MaxCircuits
    /\ \E k \in 1..Len(input) :
         /\ heap' = QuantumCircuit_init(heap, input[k]).heap
         /\ ObjectCall("QuantumCircuit", None, input[k], NoExc)
    /\ UNCHANGED <<gate, input, pc>>

\* c.append(g)
AppendToCircuit ==
    /\ pc = "idle" /\ Len(calls) < MaxOps
    /\ \E c \in 1..Len(heap.circuits) : \E g \in ObjectGates :
         /\ heap' = QuantumCircuit_append(heap, c, g)
         /\ ObjectCall("append", c, g, NoExc)
    /\ UNCHANGED <<gate, input, pc>>

\* c.concat(o) up to its loop: the size test raises, or the loop is entered
Concat ==
    /\ pc = "idle" /\ Len(calls) < MaxOps
    /\ \E c \in 1..Len(heap.circuits) : \E o \in 1..Len(heap.circuits) :
         LET exc == concat_check(heap, c, o)
         IN  /\ ObjectCall("concat", c, o, exc)
             /\ IF exc # NoExc
                THEN UNCHANGED <<gate, pc>>
                ELSE /\ gate' = [self |-> c, other |-> o, i |-> 0]
                     /\ pc' = "concat"
    /\ UNCHANGED <<heap, input>>

\* one iteration of the loop of concat
ConcatNext ==
    /\ pc = "concat"
    /\ gate.i < MaxIter
    /\ concat_has_next(heap, gate.other, gate.i)
    /\ heap' = concat_body(heap, gate.self, gate.other, gate.i)
    /\ gate' = [gate EXCEPT !.i = @ + 1]
    /\ UNCHANGED <<pre, circuit, input, calls, pc>>

\* the iterator is exhausted: concat returns
ConcatReturn ==
    /\ pc = "concat"
    /\ ~concat_has_next(heap, gate.other, gate.i)
    /\ gate' = None
    /\ pc' = "idle"
    /\ UNCHANGED <<heap, pre, circuit, input, calls>>

NextObjects ==
    \/ NewCircuit \/ NewCircuitFromList \/ NewCircuitFromHeld
    \/ AppendToCircuit \/ Concat \/ ConcatNext \/ ConcatReturn

SpecObjects == InitObjects /\ [][NextObjects]_vars

\* s is t or the beginning of t
IsPrefix(s, t) == Len(s) <= Len(t) /\ \A i \in 1..Len(s) : s[i] = t[i]

\* C28: c.concat(o), o being any circuit, c itself included: when the
\* qubit counts differ it raises ValueError and the gates of c are as before;
\* otherwise it does not raise, while it runs the gates of c are a beginning
\* of (the gates c had) followed by (the gates o had), so that it can end
\* there, and when it has returned the gates of c are exactly that list and,
\* o being another object, the gates of o are as before.
C28_Concat ==
    (calls # <<>> /\ LastCall.op = "concat")
      => LET c == LastCall.what
             o == LastCall.arg
             old == gates_of(pre, c)
             theirs == gates_of(pre, o)
         IN  IF WidthOf(theirs) # WidthOf(old)
             THEN /\ LastCall.exc.type = "ValueError"
                  /\ pc = "idle"
                  /\ gates_of(heap, c) = old
             ELSE /\ LastCall.exc = NoExc
                  /\ IsPrefix(gates_of(heap, c), old \o theirs)
                  /\ pc = "idle" =>
                       /\ gates_of(heap, c) = old \o theirs
                       /\ o # c => gates_of(heap, o) = theirs

\* C29: after c.append(g), every other circuit has the gates, the
\* num_qubits and the depth it had before, however the circuits were
\* constructed (with no argument, from different lists or from one list).
C29_NoSharedGates ==
    (calls # <<>> /\ LastCall.op = "append")
      => \A d \in 1..Len(pre.circuits) :
           d # LastCall.what
             => /\ gates_of(heap, d) = gates_of(pre, d)
                /\ circuit_num_qubits(gates_of(heap, d)) = circuit_num_qubits(gates_of(pre, d))
                /\ depth(gates_of(heap, d)) = depth(gates_of(pre, d))

(***************************************************************************)
(* Randomizer and RandomCircuitGenerator.generate (src/generator.py): the  *)
(* loop over the gates, and the loop that redraws q2, iteration by         *)
(* iteration.  The unitary matrices of the gates are not represented, only *)
(* the draws that making them takes from the Randomizer.                   *)
(***************************************************************************)
\* the defaults of Randomizer.__init__ and the warm-up length n0
Randomizer_m == 65537

Randomizer_a == 75

Randomizer_c == 74

Randomizer_n0 == 100

\* Randomizer.rand_int: the next state, which is also the value returned
rand_int(state) == (Randomizer_a * state + Randomizer_c) % Randomizer_m

RECURSIVE generate_initial_num(_, _)
\* Randomizer.generate_initial_num: X = seed, and then n0 times
\* X = (a * X + c) % m.  The n0 steps are made as n0 \div 2 steps and then
\* the rest of them, each run starting from the value the one before
\* reached.
generate_initial_num(seed, n0) ==
    IF n0 = 0 THEN seed
    ELSE IF n0 = 1 THEN rand_int(seed)
    ELSE CHOOSE r \in {generate_initial_num(reached, rest) :
                         reached \in {generate_initial_num(seed, n0 \div 2)},
                         rest \in {n0 - (n0 \div 2)}} : TRUE

\* rand_num >= self.w for rand_num = state / m and the weight w = num / den
rand_at_least(state, w) == state * w.den >= w.num * Randomizer_m

\* the state of the Randomizer after get_random_unitary(mode): 4 calls of
\* rand for '1q', 16 for '2q'
get_random_unitary(state, mode) ==
    generate_initial_num(state, IF mode = "1q" THEN 4 ELSE 16)

\* the widths, gate counts, weights and seeds given to RandomCircuitGenerator
Weights == {[num |-> 0, den |-> 1], [num |-> 37, den |-> 100], [num |-> 1, den |-> 1]}

Seeds == {27, 0, 1, Randomizer_m - 1}

\* Randomizer(seed=seed) for each of the seeds: the object after __init__
Randomizer_init == [seed \in Seeds |-> [X |-> generate_initial_num(seed, Randomizer_n0)]]

\* input holds the arguments, heap the Randomizer, circuit the targets of
\* the gates of qc, gate the local names q1 and q2 (None before they are
\* first assigned; they keep their values after the while loop)
InitGenerator ==
    /\ input \in [width : 1..MaxQubits, n_gates : 0..MaxGates, w : Weights, seed : Seeds]
    /\ heap = Randomizer_init[input.seed]
    /\ pre = EmptyHeap
    /\ gate = [q1 |-> None, q2 |-> None]
    /\ circuit = <<>>
    /\ calls = <<>>
    /\ pc = "loop"

\* one iteration of "for _ in range(self.n_gates)" up to the while loop:
\* a 1-qubit gate is appended, or q1 and q2 are drawn
GenerateGate ==
    /\ pc = "loop"
    /\ Len(circuit) < input.n_gates
    /\ LET X1 == rand_int(heap.X)
           X2 == rand_int(X1)
           X3 == rand_int(X2)
       IN  IF rand_at_least(X1, input.w) \/ input.width = 1
           THEN /\ circuit' = Append(circuit, <<X2 % input.width>>)
                /\ heap' = [X |-> get_random_unitary(X2, "1q")]
                /\ UNCHANGED <<gate, pc>>
           ELSE /\ gate' = [q1 |-> X2 % input.width, q2 |-> X3 % input.width]
                /\ heap' = [X |-> X3]
                /\ pc' = "while"
                /\ UNCHANGED circuit
    /\ UNCHANGED <<pre, input, calls>>

\* while q2 == q1: q2 = self.randomizer.rand_int() % self.width
RedrawQ2 ==
    /\ pc = "while"
    /\ gate.q2 = gate.q1
    /\ heap' = [X |-> rand_int(heap.X)]
    /\ gate' = [gate EXCEPT !.q2 = rand_int(heap.X) % input.width]
    /\ UNCHANGED <<pre, input, circuit, calls, pc>>

\* the while loop is left: the 2-qubit gate is made and appended
AppendGate2Q ==
    /\ pc = "while"
    /\ gate.q2 # gate.q1
    /\ heap' = [X |-> get_random_unitary(heap.X, "2q")]
    /\ circuit' = Append(circuit, <<gate.q1, gate.q2>>)
    /\ pc' = "loop"
    /\ UNCHANGED <<pre, gate, input, calls>>

\* return qc
ReturnCircuit ==
    /\ pc = "loop"
    /\ Len(circuit) = input.n_gates
    /\ pc' = "returned"
    /\ UNCHANGED <<heap, pre, gate, circuit, input, calls>>

NextGenerator == GenerateGate \/ RedrawQ2 \/ AppendGate2Q \/ ReturnCircuit

SpecGenerator == InitGenerator /\ [][NextGenerator]_vars

\* generate() goes on running as long as it has a step to make
SpecGeneratorFair == SpecGenerator /\ WF_vars(NextGenerator)

\* what the caller of generate() is promised of the circuit
GeneratedOk ==
    /\ Len(circuit) = input.n_gates
    /\ \A i \in 1..Len(circuit) :
         /\ Len(circuit[i]) \in {1, 2}
         /\ \A k \in 1..Len(circuit[i]) : circuit[i][k] \in 0..(input.width - 1)
         /\ Len(circuit[i]) = 2 => circuit[i][1] # circuit[i][2]
         /\ input.width = 1 => Len(circuit[i]) = 1

\* C30: generate() returns, for every width >= 1, n_gates >= 0, weight and
\* seed, and the circuit it returns has exactly n_gates gates, every target
\* in 0..width-1, two different targets in every 2-target gate and only
\* 1-target gates when width is 1.
C30_GenerateTerminates == <>(pc = "returned" /\ GeneratedOk)

====
